---- MODULE Spec2Model ----
(***************************************************************************)
(* SQL safety validation and guarded execution of the NL2SQL backend:      *)
(* SQLValidator (src/validator.py), QueryExecutor (src/query_executor.py)  *)
(* and the request handler that chains them (src/app.py).                  *)
(*                                                                         *)
(* A SQL text is the sequence of lexemes that sqlparse's lexer cuts it     *)
(* into (keywords, names, literals, punctuation, single blanks).  The      *)
(* character-level tests of the code (upper(), substring search, regular   *)
(* expressions, strip) are evaluated lexeme by lexeme through the tables   *)
(* below; str() of a token or of a text is the concatenation of lexemes.   *)
(***************************************************************************)
EXTENDS Integers, Sequences, FiniteSets, TLC

(***************************************************************************)
(* Program constants.                                                      *)
(***************************************************************************)
MAX_QUERY_ROWS == 1000
QUERY_TIMEOUT == 30
MAX_JOINS == 3
MAX_SUBQUERY_DEPTH == 3

(***************************************************************************)
(* Strings: lexeme tables.                                                 *)
(***************************************************************************)
\* str.upper() of one lexeme; a lexeme without lower-case letters is its own
\* upper-case form.
UpperTable ==
  [l \in {"select", "from", "join", "left join", "Left Join", "limit",
          "customerName", "customerNumber", "country", "customers",
          "Customers", "orders", "status", "nosuch", "c", "db",
          "creditLimit", "creditLIMIT", "\"customers\"", "\"nosuch\"",
          "'limit'", "'select'", "exec", "execute", "exec_time", "load_file",
          "into", "outfile", "inner join", "order by", "a", "t",
          "/* c */", "-- c"} |->
     CASE l = "select" -> "SELECT"
       [] l = "from" -> "FROM"
       [] l = "join" -> "JOIN"
       [] l = "left join" -> "LEFT JOIN"
       [] l = "Left Join" -> "LEFT JOIN"
       [] l = "limit" -> "LIMIT"
       [] l = "customerName" -> "CUSTOMERNAME"
       [] l = "customerNumber" -> "CUSTOMERNUMBER"
       [] l = "country" -> "COUNTRY"
       [] l = "customers" -> "CUSTOMERS"
       [] l = "Customers" -> "CUSTOMERS"
       [] l = "orders" -> "ORDERS"
       [] l = "status" -> "STATUS"
       [] l = "nosuch" -> "NOSUCH"
       [] l = "c" -> "C"
       [] l = "db" -> "DB"
       [] l = "creditLimit" -> "CREDITLIMIT"
       [] l = "creditLIMIT" -> "CREDITLIMIT"
       [] l = "\"customers\"" -> "\"CUSTOMERS\""
       [] l = "\"nosuch\"" -> "\"NOSUCH\""
       [] l = "-- c" -> "-- C"
       [] l = "'limit'" -> "'LIMIT'"
       [] l = "'select'" -> "'SELECT'"
       [] l = "order by" -> "ORDER BY"
       [] l = "a" -> "A"
       [] l = "t" -> "T"
       [] l = "exec" -> "EXEC"
       [] l = "execute" -> "EXECUTE"
       [] l = "exec_time" -> "EXEC_TIME"
       [] l = "load_file" -> "LOAD_FILE"
       [] l = "into" -> "INTO"
       [] l = "outfile" -> "OUTFILE"
       [] l = "inner join" -> "INNER JOIN"
       [] l = "/* c */" -> "/* C */"]

Upper(l) == IF l \in DOMAIN UpperTable THEN UpperTable[l] ELSE l

\* substring test: needle in u, for the needles the code searches and
\* upper-cased lexemes u.
Contains(needle, u) ==
  CASE needle = "LIMIT" -> u \in {"LIMIT", "CREDITLIMIT", "'LIMIT'"}
    [] needle = "SELECT" -> u \in {"SELECT", "'SELECT'"}
    [] needle = "JOIN" -> u \in {"JOIN", "LEFT JOIN", "INNER JOIN", "RIGHT JOIN",
                                "FULL JOIN", "CROSS JOIN"}
    [] needle = ";" -> u \in {";"}
    [] needle = "." -> u \in {"."}
    [] needle = "--" -> u \in {"-- C"}
    [] needle = "/*" -> u \in {"/* C */"}
    [] OTHER -> u = needle

\* strip of the quoting characters (backtick, double quote, brackets) of one lexeme.
StripQuotes(l) ==
  CASE l = "\"customers\"" -> "customers"
    [] l = "\"nosuch\"" -> "nosuch"
    [] OTHER -> l

\* the same strip at the left end only and at the right end only
StripQuotesLeft(l) ==
  CASE l = "\"customers\"" -> "customers\""
    [] l = "\"nosuch\"" -> "nosuch\""
    [] OTHER -> l

StripQuotesRight(l) ==
  CASE l = "\"customers\"" -> "\"customers"
    [] l = "\"nosuch\"" -> "\"nosuch"
    [] OTHER -> l

\* decimal numerals and their values (int(), str()).
NumVal ==
  [l \in {"0", "5", "1000", "5000"} |->
     CASE l = "0" -> 0 [] l = "5" -> 5 [] l = "1000" -> 1000 [] l = "5000" -> 5000]

IsDigits(l) == l \in DOMAIN NumVal

ToStr(n) ==
  CASE n = 0 -> "0" [] n = 1 -> "1" [] n = 2 -> "2" [] n = 3 -> "3"
    [] n = 4 -> "4" [] n = 5 -> "5" [] n = 6 -> "6" [] n = 7 -> "7"
    [] n = 8 -> "8" [] n = 30 -> "30" [] n = 1000 -> "1000"
    [] n = 5000 -> "5000" [] OTHER -> "?"

IsSpace(l) == l \in {" ", "\n"}

RECURSIVE Concat(_)
\* join of the lexemes into one string
Concat(ls) ==
  IF ls = <<>> THEN ""
  ELSE IF Len(ls) = 1 THEN ls[1]
  ELSE Concat(SubSeq(ls, 1, Len(ls) \div 2))
         \o Concat(SubSeq(ls, Len(ls) \div 2 + 1, Len(ls)))

LStrip(ls) ==
  LET S == {i \in 1..Len(ls) : ~IsSpace(ls[i])}
  IN  IF S = {} THEN <<>> ELSE SubSeq(ls, CHOOSE i \in S : \A j \in S : i <= j, Len(ls))

RStrip(ls) ==
  LET S == {i \in 1..Len(ls) : ~IsSpace(ls[i])}
  IN  IF S = {} THEN <<>> ELSE SubSeq(ls, 1, CHOOSE i \in S : \A j \in S : i >= j)

\* str.strip()
Strip(ls) == LStrip(RStrip(ls))

UpperText(ls) == [i \in 1..Len(ls) |-> Upper(ls[i])]

(***************************************************************************)
(* sqlparse: lexer.                                                        *)
(***************************************************************************)
TType(l) ==
  CASE Upper(l) \in {"SELECT", "DELETE", "INSERT", "UPDATE"} -> "DML"
    [] Upper(l) \in {"DROP", "CREATE"} -> "DDL"
    [] Upper(l) \in {"FROM", "WHERE", "JOIN", "LEFT JOIN", "INNER JOIN",
                     "RIGHT JOIN", "FULL JOIN", "CROSS JOIN", "LIMIT", "IN",
                     "TABLE", "AS", "ON", "GROUP BY", "ORDER BY", "DISTINCT",
                     "EXEC", "EXECUTE", "INTO"}
         -> "Keyword"
    [] IsSpace(l) -> "Whitespace"
    [] l \in {",", ";", ".", "(", ")"} -> "Punctuation"
    [] l = "*" -> "Wildcard"
    [] l = "=" -> "Comparison"
    [] IsDigits(l) -> "Integer"
    [] l \in {"'USA'", "'limit'", "'select'"} -> "String"
    [] l \in {"\"customers\"", "\"nosuch\""} -> "Symbol"
    [] l \in {"/* c */", "-- c"} -> "Comment"
    [] OTHER -> "Name"

Tok(l) == [cls |-> "Token", ttype |-> TType(l), value |-> l, tokens |-> <<>>]

Grp(c, ts) == [cls |-> c, ttype |-> "None", value |-> "", tokens |-> ts]

IsGroup(t) == t.cls # "Token"

IsWs(t) == t.cls = "Token" /\ t.ttype = "Whitespace"

IsKw(t, u) == t.cls = "Token" /\ t.ttype = "Keyword" /\ Upper(t.value) = u

IsPunct(t, v) == t.cls = "Token" /\ t.ttype = "Punctuation" /\ t.value = v

RECURSIVE Flat(_)
RECURSIVE FlatAll(_)
\* the lexemes under a node, and under a list of nodes, in text order
Flat(t) == IF t.cls = "Token" THEN <<t.value>> ELSE FlatAll(t.tokens)

FlatAll(ts) ==
  IF ts = <<>> THEN <<>>
  ELSE IF Len(ts) = 1 THEN Flat(ts[1])
  ELSE FlatAll(SubSeq(ts, 1, Len(ts) \div 2))
         \o FlatAll(SubSeq(ts, Len(ts) \div 2 + 1, Len(ts)))

\* str(token)
Str(t) == Concat(Flat(t))

(***************************************************************************)
(* sqlparse: statement splitting and grouping.  Every grouping pass first  *)
(* groups inside the child groups and then at its own level, in the order  *)
(* of sqlparse.engine.grouping.group: parenthesis, where, period and       *)
(* identifier, comparison, aliased, identifier list.                       *)
(***************************************************************************)
Lex(sql) == [i \in 1..Len(sql) |-> Tok(sql[i])]

Min(S) == CHOOSE x \in S : \A y \in S : x <= y

Max(S) == CHOOSE x \in S : \A y \in S : x >= y

\* index of the next / previous token that is not whitespace, 0 if none
NextNonWs(ts, i) ==
  LET S == {j \in (i + 1)..Len(ts) : ~IsWs(ts[j])} IN IF S = {} THEN 0 ELSE Min(S)

PrevNonWs(ts, i) ==
  LET S == {j \in 1..(i - 1) : ~IsWs(ts[j])} IN IF S = {} THEN 0 ELSE Max(S)

Replace(ts, a, b, node) ==
  SubSeq(ts, 1, a - 1) \o <<node>> \o SubSeq(ts, b + 1, Len(ts))

\* parenthesis depth in front of lexeme i
ParenDepth(sql, i) ==
  Cardinality({j \in 1..(i - 1) : sql[j] = "("})
    - Cardinality({j \in 1..(i - 1) : sql[j] = ")"})

\* StatementSplitter: the first statement ends with the first top-level
\* terminator and the whitespace behind it.
FirstStatementEnd(sql) ==
  LET semis == {i \in 1..Len(sql) : sql[i] = ";" /\ ParenDepth(sql, i) = 0}
  IN  IF semis = {} THEN Len(sql)
      ELSE LET s == Min(semis)
               later == {j \in (s + 1)..Len(sql) : ~IsSpace(sql[j])}
           IN  IF later = {} THEN Len(sql) ELSE Min(later) - 1

\* sqlparse.parse(sql) is empty: no statement is produced for a text
\* without any token that is not whitespace
ParsesToNothing(sql) == \A i \in 1..Len(sql) : IsSpace(sql[i])

\* parenthesis depth in front of token i of a list of leaf tokens
TokenDepth(ts, i) ==
  Cardinality({j \in 1..(i - 1) : IsPunct(ts[j], "(")})
    - Cardinality({j \in 1..(i - 1) : IsPunct(ts[j], ")")})

\* the k-th smallest element of a set of numbers
Nth(S, k) == CHOOSE x \in S : Cardinality({y \in S : y < x}) = k - 1

RECURSIVE group_parenthesis(_)
\* every balanced pair of parentheses of a list of leaf tokens becomes a
\* Parenthesis group, the inner pairs first
group_parenthesis(ts) ==
  LET tops == {i \in 1..Len(ts) : TokenDepth(ts, i) = 0}
      closeOf(i) ==
        LET S == {j \in (i + 1)..Len(ts) : IsPunct(ts[j], ")") /\ TokenDepth(ts, j) = 1}
        IN  IF S = {} THEN 0 ELSE Min(S)
  IN  [k \in 1..Cardinality(tops) |->
         LET i == Nth(tops, k)
         IN  IF IsPunct(ts[i], "(") /\ closeOf(i) # 0
             THEN Grp("Parenthesis",
                      <<ts[i]>> \o group_parenthesis(SubSeq(ts, i + 1, closeOf(i) - 1))
                        \o <<ts[closeOf(i)]>>)
             ELSE ts[i]]

WhereClose == {"ORDER BY", "GROUP BY", "LIMIT", "UNION", "HAVING", "INTO"}

RECURSIVE WhereLevel(_, _, _)
\* groups WHERE .. up to the token before the next closing keyword, or up
\* to the last groupable token
WhereLevel(ts, start, last) ==
  LET ws == {i \in start..last : IsKw(ts[i], "WHERE")}
  IN  IF ws = {} THEN ts
      ELSE LET w == Min(ws)
               cs == {i \in (w + 1)..last : \E k \in WhereClose : IsKw(ts[i], k)}
               e == IF cs = {} THEN last ELSE Min(cs) - 1
           IN  WhereLevel(Replace(ts, w, e, Grp("Where", SubSeq(ts, w, e))),
                          w + 1, last - (e - w))

RECURSIVE group_where(_)
group_where(node) ==
  LET kids == [i \in 1..Len(node.tokens) |->
                 IF IsGroup(node.tokens[i]) /\ node.tokens[i].cls # "Where"
                 THEN group_where(node.tokens[i]) ELSE node.tokens[i]]
      last == IF node.cls = "Parenthesis" THEN Len(kids) - 1 ELSE Len(kids)
      first == IF node.cls = "Parenthesis" THEN 2 ELSE 1
  IN  Grp(node.cls, WhereLevel(kids, first, last))

IsNameTok(t) == t.cls = "Token" /\ t.ttype \in {"Name", "Symbol"}

RECURSIVE NameChainEnd(_, _)
\* last index of the dotted chain name(.name)* that starts at i
NameChainEnd(ts, i) ==
  IF i + 2 <= Len(ts) /\ IsPunct(ts[i + 1], ".") /\ IsNameTok(ts[i + 2])
  THEN NameChainEnd(ts, i + 2) ELSE i

RECURSIVE IdentifierLevel(_, _)
\* every dotted chain of names from index start on becomes an Identifier
IdentifierLevel(ts, start) ==
  LET ns == {i \in start..Len(ts) : IsNameTok(ts[i])}
  IN  IF ns = {} THEN ts
      ELSE LET i == Min(ns)
               e == NameChainEnd(ts, i)
           IN  IdentifierLevel(Replace(ts, i, e, Grp("Identifier", SubSeq(ts, i, e))),
                               i + 1)

RECURSIVE group_identifier(_)
\* group_period and group_identifier
group_identifier(node) ==
  LET kids == [i \in 1..Len(node.tokens) |->
                 IF IsGroup(node.tokens[i]) /\ node.tokens[i].cls # "Identifier"
                 THEN group_identifier(node.tokens[i]) ELSE node.tokens[i]]
  IN  Grp(node.cls, IdentifierLevel(kids, 1))

CmpOperand(t) ==
  \/ t.cls \in {"Parenthesis", "Function", "Identifier"}
  \/ t.cls = "Token" /\ t.ttype \in {"Integer", "String", "Symbol", "Name"}

RECURSIVE ComparisonLevel(_, _)
ComparisonLevel(ts, start) ==
  LET ops == {i \in start..Len(ts) : ts[i].cls = "Token" /\ ts[i].ttype = "Comparison"}
  IN  IF ops = {} THEN ts
      ELSE LET o == Min(ops)
               p == PrevNonWs(ts, o)
               n == NextNonWs(ts, o)
           IN  IF p # 0 /\ n # 0 /\ CmpOperand(ts[p]) /\ CmpOperand(ts[n])
               THEN ComparisonLevel(
                      Replace(ts, p, n, Grp("Comparison", SubSeq(ts, p, n))), p + 1)
               ELSE ComparisonLevel(ts, o + 1)

RECURSIVE group_comparison(_)
group_comparison(node) ==
  LET kids == [i \in 1..Len(node.tokens) |->
                 IF IsGroup(node.tokens[i]) /\ node.tokens[i].cls # "Comparison"
                 THEN group_comparison(node.tokens[i]) ELSE node.tokens[i]]
  IN  Grp(node.cls, ComparisonLevel(kids, 1))

AliasHead(t) ==
  \/ t.cls \in {"Parenthesis", "Function", "Identifier", "Comparison"}
  \/ t.cls = "Token" /\ t.ttype = "Integer"

RECURSIVE AliasedLevel(_, _)
\* X followed by an Identifier becomes one Identifier (X alias); an
\* Identifier X is extended in place
AliasedLevel(ts, start) ==
  LET hs == {i \in start..Len(ts) : AliasHead(ts[i])}
  IN  IF hs = {} THEN ts
      ELSE LET h == Min(hs)
               n == NextNonWs(ts, h)
           IN  IF n # 0 /\ ts[n].cls = "Identifier"
               THEN LET body == IF ts[h].cls = "Identifier"
                                THEN ts[h].tokens \o SubSeq(ts, h + 1, n)
                                ELSE SubSeq(ts, h, n)
                    IN  AliasedLevel(Replace(ts, h, n, Grp("Identifier", body)), h + 1)
               ELSE AliasedLevel(ts, h + 1)

RECURSIVE group_aliased(_)
group_aliased(node) ==
  LET kids == [i \in 1..Len(node.tokens) |->
                 IF IsGroup(node.tokens[i]) /\ node.tokens[i].cls # "Identifier"
                 THEN group_aliased(node.tokens[i]) ELSE node.tokens[i]]
  IN  Grp(node.cls, AliasedLevel(kids, 1))

ListItem(t) ==
  \/ t.cls \in {"Function", "Identifier", "Comparison", "IdentifierList"}
  \/ t.cls = "Token" /\ t.ttype \in {"Integer", "String", "Symbol", "Name",
                                     "Keyword", "Comment", "Wildcard"}

RECURSIVE IdentifierListLevel(_, _)
IdentifierListLevel(ts, start) ==
  LET cs == {i \in start..Len(ts) : IsPunct(ts[i], ",")}
  IN  IF cs = {} THEN ts
      ELSE LET c == Min(cs)
               p == PrevNonWs(ts, c)
               n == NextNonWs(ts, c)
           IN  IF p # 0 /\ n # 0 /\ ListItem(ts[p]) /\ ListItem(ts[n])
               THEN LET body == IF ts[p].cls = "IdentifierList"
                                THEN ts[p].tokens \o SubSeq(ts, p + 1, n)
                                ELSE SubSeq(ts, p, n)
                    IN  IdentifierListLevel(
                          Replace(ts, p, n, Grp("IdentifierList", body)), p + 1)
               ELSE IdentifierListLevel(ts, c + 1)

RECURSIVE group_identifier_list(_)
group_identifier_list(node) ==
  LET kids == [i \in 1..Len(node.tokens) |->
                 IF IsGroup(node.tokens[i]) /\ node.tokens[i].cls # "IdentifierList"
                 THEN group_identifier_list(node.tokens[i]) ELSE node.tokens[i]]
  IN  Grp(node.cls, IdentifierListLevel(kids, 1))

\* sqlparse.parse(sql)[0]
ParseFirst(sql) ==
  LET leaves == Lex(SubSeq(sql, 1, FirstStatementEnd(sql)))
      stmt == Grp("Statement", group_parenthesis(leaves))
  IN  group_identifier_list(
        group_aliased(group_comparison(group_identifier(group_where(stmt)))))

(***************************************************************************)
(* SQLValidator (src/validator.py).  A schema maps each table name to the  *)
(* set of its column names.                                                *)
(***************************************************************************)
None == "<None>"

\* token_first(skip_ws=True, skip_cm=True), 0 if there is none
token_first(statement) ==
  LET S == {i \in 1..Len(statement.tokens) :
              ~IsWs(statement.tokens[i])
              /\ ~(statement.tokens[i].cls = "Token"
                   /\ statement.tokens[i].ttype = "Comment")}
  IN  IF S = {} THEN 0 ELSE Min(S)

\* the comparison of line 77 without upper(): lower-case select is refused
_is_select_only_CaseSensitive(statement) ==
  LET f == token_first(statement)
  IN  IF f = 0 THEN FALSE
      ELSE statement.tokens[f].ttype = "DML" /\ statement.tokens[f].value = "SELECT"

_is_select_only(statement) ==
  LET f == token_first(statement)
  IN  IF f = 0 THEN FALSE
      ELSE statement.tokens[f].ttype = "DML"
           /\ Upper(statement.tokens[f].value) = "SELECT"

join_patterns ==
  <<"INNER JOIN", "LEFT JOIN", "RIGHT JOIN", "FULL JOIN", "CROSS JOIN", "JOIN">>

\* matches of one join pattern inside one upper-cased lexeme
PatternHits(pattern, u) ==
  IF pattern = "JOIN"
  THEN (IF u \in {"JOIN", "INNER JOIN", "LEFT JOIN", "RIGHT JOIN", "FULL JOIN",
                  "CROSS JOIN"} THEN 1 ELSE 0)
  ELSE (IF u = pattern THEN 1 ELSE 0)

\* len(re.findall(pattern, sql_str))
SumHits(pattern, us) == Cardinality({i \in 1..Len(us) : PatternHits(pattern, us[i]) = 1})

RECURSIVE SumPatterns(_, _)
SumPatterns(patterns, us) ==
  IF patterns = <<>> THEN 0
  ELSE SumHits(Head(patterns), us) + SumPatterns(Tail(patterns), us)

\* the patterns counted in str(statement) without upper()
_count_joins_CaseSensitive(statement) == SumPatterns(join_patterns, Flat(statement))

_count_joins(statement) == SumPatterns(join_patterns, UpperText(Flat(statement)))

\* str(token).strip() starts with an opening parenthesis and holds SELECT
LooksLikeSubquery(token) ==
  LET token_str == Strip(Flat(token))
  IN  /\ token_str # <<>>
      /\ Head(token_str) = "("
      /\ \E i \in 1..Len(token_str) : Contains("SELECT", Upper(token_str[i]))

RECURSIVE _count_subquery_depth(_, _)
_count_subquery_depth(statement, current_depth) ==
  LET ds == {IF LooksLikeSubquery(statement.tokens[i])
             THEN _count_subquery_depth(statement.tokens[i], current_depth + 1)
             ELSE _count_subquery_depth(statement.tokens[i], current_depth) :
               i \in {j \in 1..Len(statement.tokens) : IsGroup(statement.tokens[j])}}
  IN  Max(ds \cup {current_depth})

JoinMessage(n) ==
  "Too many JOINs: " \o ToStr(n) \o " (max allowed: " \o ToStr(MAX_JOINS) \o ")"

DepthMessage(n) ==
  "Subquery nesting too deep: " \o ToStr(n) \o " (max allowed: "
    \o ToStr(MAX_SUBQUERY_DEPTH) \o ")"

\* the limits compared with a value that already counts as too many at the limit
_check_complexity_AtLimit(statement) ==
  LET join_count == _count_joins(statement)
      subquery_depth == _count_subquery_depth(statement, 0)
  IN  (IF join_count >= MAX_JOINS THEN <<JoinMessage(join_count)>> ELSE <<>>)
      \o (IF subquery_depth >= MAX_SUBQUERY_DEPTH
          THEN <<DepthMessage(subquery_depth)>> ELSE <<>>)

_check_complexity(statement) ==
  LET join_count == _count_joins(statement)
      subquery_depth == _count_subquery_depth(statement, 0)
  IN  (IF join_count > MAX_JOINS THEN <<JoinMessage(join_count)>> ELSE <<>>)
      \o (IF subquery_depth > MAX_SUBQUERY_DEPTH
          THEN <<DepthMessage(subquery_depth)>> ELSE <<>>)

\* remove_quotes: a value in matching quotes loses them
remove_quotes(v) == StripQuotes(v)

RECURSIVE get_real_name(_)
\* TokenList.get_real_name: the first name behind the first dot, or the
\* first name if there is no dot
get_real_name(identifier) ==
  LET ts == identifier.tokens
      dots == {i \in 1..Len(ts) : IsPunct(ts[i], ".")}
      from == IF dots = {} THEN 1 ELSE Min(dots)
      named == {i \in from..Len(ts) :
                  \/ ts[i].cls = "Token" /\ ts[i].ttype \in {"Name", "Wildcard", "Symbol"}
                  \/ ts[i].cls \in {"Identifier", "Function"}}
  IN  IF named = {} THEN None
      ELSE LET t == ts[Min(named)]
           IN  IF t.cls = "Token" THEN remove_quotes(t.value) ELSE get_real_name(t)

_get_table_name(identifier) ==
  LET name == get_real_name(identifier)
  IN  IF name # None /\ name # "" THEN StripQuotes(name) ELSE None

\* IdentifierList.get_identifiers
get_identifiers(list) ==
  SelectSeq(list.tokens, LAMBDA t : ~IsWs(t) /\ ~IsPunct(t, ","))

RECURSIVE TableNames(_)
\* the names of a sequence of identifiers, without the empty ones
TableNames(ids) ==
  IF ids = <<>> THEN <<>>
  ELSE LET n == _get_table_name(Head(ids))
       IN  (IF n # None THEN <<n>> ELSE <<>>) \o TableNames(Tail(ids))

RECURSIVE ExtractTablesLoop(_, _, _)
\* the loop of _extract_tables from token i on; raised: an identifier of a
\* list was a plain token, which has no get_real_name
ExtractTablesLoop(ts, i, from_seen) ==
  IF i > Len(ts) THEN [tables |-> <<>>, raised |-> FALSE]
  ELSE LET token == ts[i]
           ids == IF from_seen /\ token.cls = "IdentifierList" THEN get_identifiers(token)
                  ELSE IF from_seen /\ token.cls = "Identifier" THEN <<token>>
                  ELSE <<>>
           seen == \/ IsKw(token, "FROM")
                   \/ token.cls = "Token" /\ token.ttype = "Keyword"
                      /\ Contains("JOIN", Upper(token.value))
       IN  IF \E k \in 1..Len(ids) : ~IsGroup(ids[k])
           THEN [tables |-> <<>>, raised |-> TRUE]
           ELSE LET rest == ExtractTablesLoop(ts, i + 1, seen)
                IN  [tables |-> TableNames(ids) \o rest.tables, raised |-> rest.raised]

_extract_tables(statement) == ExtractTablesLoop(statement.tokens, 1, FALSE)

\* the parts of name.split at the dots
RECURSIVE SplitDots(_)
SplitDots(ls) ==
  LET dots == {i \in 1..Len(ls) : Contains(".", ls[i])}
  IN  IF dots = {} THEN <<ls>>
      ELSE <<SubSeq(ls, 1, Min(dots) - 1)>> \o SplitDots(SubSeq(ls, Min(dots) + 1, Len(ls)))

\* strip of the quoting characters at the two ends of a string
StripQ(ls) ==
  IF Len(ls) = 0 THEN ""
  ELSE IF Len(ls) = 1 THEN StripQuotes(ls[1])
  ELSE StripQuotesLeft(ls[1]) \o Concat(SubSeq(ls, 2, Len(ls) - 1))
         \o StripQuotesRight(ls[Len(ls)])

\* the (table, column) pair of an identifier as a sequence of one pair; the
\* empty sequence stands for the None the code returns
_parse_identifier(identifier) ==
  LET name == Flat(identifier)
  IN  IF \E i \in 1..Len(name) : Contains(".", name[i])
      THEN LET parts == SplitDots(name)
           IN  IF Len(parts) = 2
               THEN << <<StripQ(parts[1]), StripQ(parts[2])>> >>
               ELSE <<>>
      ELSE LET column == StripQ(name)
               upper == IF Len(name) = 1 THEN Upper(column) ELSE Concat(UpperText(name))
           IN  IF upper \notin {"SELECT", "FROM", "WHERE", "AS", "*"}
               THEN << <<None, column>> >>
               ELSE <<>>

RECURSIVE ParseAll(_)
ParseAll(ids) ==
  IF ids = <<>> THEN <<>> ELSE _parse_identifier(Head(ids)) \o ParseAll(Tail(ids))

RECURSIVE ExtractColumnsLoop(_, _)
ExtractColumnsLoop(ts, i) ==
  IF i > Len(ts) THEN <<>>
  ELSE (IF ts[i].cls = "IdentifierList" THEN ParseAll(get_identifiers(ts[i]))
        ELSE IF ts[i].cls = "Identifier" THEN ParseAll(<<ts[i]>>)
        ELSE <<>>)
       \o ExtractColumnsLoop(ts, i + 1)

_extract_columns(statement) == ExtractColumnsLoop(statement.tokens, 1)

TableMessage(table) == "Table '" \o table \o "' not found in schema"

ColumnInTableMessage(column, table) ==
  "Column '" \o column \o "' not found in table '" \o table \o "'"

ColumnMessage(column) == "Column '" \o column \o "' not found in any table"

SchemaFailedMessage ==
  "Schema validation failed: 'Token' object has no attribute 'get_real_name'"

RECURSIVE TableErrors(_, _)
TableErrors(tables, schema_info) ==
  IF tables = <<>> THEN <<>>
  ELSE (IF Head(tables) \notin DOMAIN schema_info
        THEN <<TableMessage(Head(tables))>> ELSE <<>>)
       \o TableErrors(Tail(tables), schema_info)

RECURSIVE ColumnErrors(_, _)
ColumnErrors(columns, schema_info) ==
  IF columns = <<>> THEN <<>>
  ELSE LET table == Head(columns)[1]
           column == Head(columns)[2]
       IN  (IF table # None /\ table # "" /\ table \in DOMAIN schema_info
            THEN (IF column \notin schema_info[table]
                  THEN <<ColumnInTableMessage(column, table)>> ELSE <<>>)
            ELSE IF table = None \/ table = ""
            THEN (IF ~\E tbl_name \in DOMAIN schema_info : column \in schema_info[tbl_name]
                  THEN <<ColumnMessage(column)>> ELSE <<>>)
            ELSE <<>>)
           \o ColumnErrors(Tail(columns), schema_info)

_validate_schema(statement, schema_info) ==
  LET extracted == _extract_tables(statement)
  IN  IF extracted.raised THEN <<SchemaFailedMessage>>
      ELSE TableErrors(extracted.tables, schema_info)
           \o ColumnErrors(_extract_columns(statement), schema_info)

dangerous_patterns ==
  << <<"--", "SQL comments not allowed">>,
     <<"/*", "Multi-line comments not allowed">>,
     <<"EXEC", "EXEC command not allowed">>,
     <<"EXECUTE", "EXECUTE command not allowed">>,
     <<"INTO OUTFILE", "INTO OUTFILE not allowed">>,
     <<"LOAD_FILE", "LOAD_FILE not allowed">> >>

\* re.search(pattern, sql_upper) for the six patterns
PatternFound(pattern, us) ==
  IF pattern = "INTO OUTFILE"
  THEN \E i \in 1..Len(us) : \E j \in (i + 2)..Len(us) :
         /\ us[i] = "INTO" /\ us[j] = "OUTFILE"
         /\ \A k \in (i + 1)..(j - 1) : IsSpace(us[k])
  ELSE \E i \in 1..Len(us) : Contains(pattern, us[i])

RECURSIVE PatternErrors(_, _)
PatternErrors(patterns, us) ==
  IF patterns = <<>> THEN <<>>
  ELSE (IF PatternFound(Head(patterns)[1], us) THEN <<Head(patterns)[2]>> ELSE <<>>)
       \o PatternErrors(Tail(patterns), us)

\* the terminator test: a terminator in sql_query without its last character
SemicolonInside(sql_query) ==
  \E i \in 1..(Len(sql_query) - 1) : Contains(";", sql_query[i])

\* the patterns searched in sql_query itself instead of sql_upper
_check_dangerous_patterns_CaseSensitive(sql_query) ==
  (IF SemicolonInside(sql_query)
   THEN <<"Multiple SQL statements not allowed">> ELSE <<>>)
  \o PatternErrors(dangerous_patterns, sql_query)

_check_dangerous_patterns(sql_query) ==
  (IF SemicolonInside(sql_query)
   THEN <<"Multiple SQL statements not allowed">> ELSE <<>>)
  \o PatternErrors(dangerous_patterns, UpperText(sql_query))

\* validate returning at the first rule family that reports a violation
validate_ShortCircuit(sql_query, schema_info) ==
  IF ParsesToNothing(sql_query)
  THEN [is_valid |-> FALSE, errors |-> <<"Invalid SQL syntax">>]
  ELSE LET statement == ParseFirst(sql_query)
           kind == IF ~_is_select_only(statement)
                   THEN <<"Only SELECT queries are allowed">> ELSE <<>>
           complexity == _check_complexity(statement)
           schema == _validate_schema(statement, schema_info)
           errors == IF kind # <<>> THEN kind
                     ELSE IF complexity # <<>> THEN complexity
                     ELSE IF schema # <<>> THEN schema
                     ELSE _check_dangerous_patterns(sql_query)
       IN  [is_valid |-> Len(errors) = 0, errors |-> errors]

\* is_valid computed before the dangerous patterns are appended
validate_EarlyVerdict(sql_query, schema_info) ==
  IF ParsesToNothing(sql_query)
  THEN [is_valid |-> FALSE, errors |-> <<"Invalid SQL syntax">>]
  ELSE LET statement == ParseFirst(sql_query)
           errors ==
             (IF ~_is_select_only(statement)
              THEN <<"Only SELECT queries are allowed">> ELSE <<>>)
             \o _check_complexity(statement)
             \o _validate_schema(statement, schema_info)
       IN  [is_valid |-> Len(errors) = 0,
            errors |-> errors \o _check_dangerous_patterns(sql_query)]

validate(sql_query, schema_info) ==
  IF ParsesToNothing(sql_query)
  THEN [is_valid |-> FALSE, errors |-> <<"Invalid SQL syntax">>]
  ELSE LET statement == ParseFirst(sql_query)
           errors ==
             (IF ~_is_select_only(statement)
              THEN <<"Only SELECT queries are allowed">> ELSE <<>>)
             \o _check_complexity(statement)
             \o _validate_schema(statement, schema_info)
             \o _check_dangerous_patterns(sql_query)
       IN  [is_valid |-> Len(errors) = 0, errors |-> errors]

_calculate_complexity_score(statement) ==
  LET sql_str == UpperText(Flat(statement))
      Has(word) == \E i \in 1..Len(sql_str) : Contains(word, sql_str[i])
  IN  1 + _count_joins(statement) * 2 + _count_subquery_depth(statement, 0) * 3
        + (IF Has("GROUP BY") THEN 2 ELSE 0)
        + (IF Has("ORDER BY") THEN 1 ELSE 0)
        + (IF Has("DISTINCT") THEN 1 ELSE 0)

\* sqlparse.parse(sql_query)[0] raises IndexError for a text without
\* statement; the bare except answers with the short dictionary
estimate_cost(sql_query) ==
  IF ParsesToNothing(sql_query) THEN [estimated_complexity |-> 0]
  ELSE LET parsed == ParseFirst(sql_query)
           sql_upper == UpperText(sql_query)
       IN  [join_count |-> _count_joins(parsed),
            subquery_depth |-> _count_subquery_depth(parsed, 0),
            has_aggregation |-> \E i \in 1..Len(sql_upper) : Contains("GROUP BY", sql_upper[i]),
            has_order |-> \E i \in 1..Len(sql_upper) : Contains("ORDER BY", sql_upper[i]),
            estimated_complexity |-> _calculate_complexity_score(parsed)]

(***************************************************************************)
(* QueryExecutor._add_limit_clause (src/query_executor.py).                *)
(***************************************************************************)
\* the lexeme ends with the letters LIMIT
EndsWithLIMIT(u) == u \in {"LIMIT", "CREDITLIMIT"}

\* the lexeme with its final LIMIT replaced by the replacement text
ReplaceLimitWord(l) == IF Upper(l) = "CREDITLIMIT" THEN "creditLIMIT" ELSE "LIMIT"

\* a match of LIMIT, whitespace, digits that starts in lexeme i: the index
\* of the digits, 0 if there is no match at i
LimitMatchEnd(ls, i) ==
  IF ~EndsWithLIMIT(Upper(ls[i])) THEN 0
  ELSE LET S == {j \in (i + 1)..Len(ls) : ~IsSpace(ls[j])}
       IN  IF S # {} /\ Min(S) > i + 1 /\ IsDigits(ls[Min(S)]) THEN Min(S) ELSE 0

\* re.search: the first match, 0 if none
LimitSearch(ls) ==
  LET S == {i \in 1..Len(ls) : LimitMatchEnd(ls, i) # 0}
  IN  IF S = {} THEN 0 ELSE Min(S)

RECURSIVE LimitSub(_, _, _)
\* re.sub: every match is replaced
LimitSub(ls, i, max_rows) ==
  IF i > Len(ls) THEN <<>>
  ELSE IF LimitMatchEnd(ls, i) # 0
  THEN <<ReplaceLimitWord(ls[i]), " ", ToStr(max_rows)>>
         \o LimitSub(ls, LimitMatchEnd(ls, i) + 1, max_rows)
  ELSE <<ls[i]>> \o LimitSub(ls, i + 1, max_rows)

_add_limit_clause(sql_query, max_rows) ==
  LET sql_upper == Strip(UpperText(sql_query))
      stripped == IF sql_query # <<>> /\ sql_query[Len(sql_query)] = ";"
                  THEN Strip(SubSeq(sql_query, 1, Len(sql_query) - 1))
                  ELSE sql_query
  IN  IF ~\E i \in 1..Len(sql_upper) : Contains("LIMIT", sql_upper[i])
      THEN stripped \o <<" ", "LIMIT", " ", ToStr(max_rows)>>
      ELSE LET m == LimitSearch(sql_upper)
           IN  IF m # 0 /\ NumVal[sql_upper[LimitMatchEnd(sql_upper, m)]] > max_rows
               THEN LimitSub(stripped, 1, max_rows)
               ELSE stripped

(***************************************************************************)
(* The database server: the statement's own row limit, and what it         *)
(* answers.                                                                *)
(***************************************************************************)
NoLimit == -1

\* the row count of the top-level LIMIT clause of a statement (LIMIT n, or
\* LIMIT offset, n), NoLimit if the statement has none
RowLimit(query) ==
  LET S == {i \in 1..Len(query) :
              Upper(query[i]) = "LIMIT" /\ ParenDepth(query, i) = 0
              /\ LimitMatchEnd(query, i) # 0}
  IN  IF S = {} THEN NoLimit
      ELSE LET n == LimitMatchEnd(query, Max(S))
               after == {j \in (n + 1)..Len(query) : ~IsSpace(query[j])}
               count == IF after # {} /\ query[Min(after)] = ","
                        THEN {j \in (Min(after) + 1)..Len(query) : ~IsSpace(query[j])}
                        ELSE {}
           IN  IF count # {} /\ IsDigits(query[Min(count)])
               THEN NumVal[query[Min(count)]]
               ELSE NumVal[query[n]]

\* rows the server returns for a statement over `matching` matching rows
RowsReturned(query, matching) ==
  IF RowLimit(query) = NoLimit \/ matching <= RowLimit(query)
  THEN matching ELSE RowLimit(query)

\* the server runs one statement per call: a terminator inside is an error
ServerAccepts(query) == ~\E i \in 1..Len(query) : query[i] = ";"

(***************************************************************************)
(* Inputs: schemas and SQL texts.  A text is a leading part, a projection, *)
(* a FROM clause, JOIN clauses, a WHERE clause, a LIMIT clause and an end. *)
(***************************************************************************)
Schema1 == [t \in {"customers"} |-> {"customerNumber", "customerName", "country"}]

Schema2 ==
  [t \in {"customers", "orders"} |->
     IF t = "customers"
     THEN {"customerNumber", "customerName", "country", "creditLimit"}
     ELSE {"orderNumber", "customerNumber", "status"}]

Schemas == {Schema1, Schema2}

Leads ==
  {<<"SELECT">>, <<"select">>, <<"DELETE">>, <<"DROP">>, <<"INSERT">>,
   <<"UPDATE">>, <<"CREATE">>, <<" ", "SELECT">>, <<"/* c */", " ", "SELECT">>,
   <<"-- c", "\n", "select">>}

Projections ==
  {<<"*">>, <<"customerName">>, <<"nosuch">>, <<"customerNumber">>,
   <<"customerName", ",", " ", "nosuch">>,
   <<"customers", ".", "customerName">>, <<"customers", ".", "nosuch">>,
   <<"c", ".", "nosuch">>, <<"c", ".", "customerName">>}

Froms ==
  {<<>>,
   <<" ", "FROM", " ", "customers">>,
   <<" ", "FROM", " ", "Customers">>,
   <<" ", "FROM", " ", "nosuch">>,
   <<" ", "FROM", " ", "country">>,
   <<" ", "FROM", " ", "customers", " ", "c">>,
   <<" ", "FROM", " ", "db", ".", "customers">>,
   <<" ", "from", " ", "customers", ",", " ", "orders">>,
   <<" ", "FROM", "\"customers\"">>,
   <<" ", "FROM", "\"nosuch\"">>,
   <<" ", "FROM", "\"customers\"", " ", "c">>}

Joins ==
  {<<>>,
   <<" ", "JOIN", " ", "orders">>,
   <<" ", "JOIN", " ", "db", ".", "orders">>,
   <<" ", "left join", " ", "nosuch">>,
   <<" ", "JOIN", "\"nosuch\"">>}

JoinDb == <<" ", "JOIN", " ", "db", ".", "orders">>

JoinRuns ==
  {JoinDb \o <<" ", "join", " ", "db", ".", "orders">> \o JoinDb,
   JoinDb \o <<" ", "join", " ", "db", ".", "orders">> \o JoinDb \o JoinDb,
   <<" ", "LEFT JOIN", " ", "db", ".", "orders">>,
   <<" ", "LEFT JOIN", " ", "db", ".", "orders", " ", "Left Join", " ", "db", ".",
     "orders">>,
   <<" ", "inner join", " ", "db", ".", "orders", " ", "CROSS JOIN", " ", "db", ".",
     "orders">>,
   <<" ", "RIGHT JOIN", " ", "db", ".", "orders", " ", "JOIN", " ", "db", ".",
     "orders">>}

WhereCountry == <<" ", "WHERE", " ", "country", " ", "=", " ", "'USA'">>

WhereNosuch == <<" ", "WHERE", " ", "nosuch", " ", "=", " ", "'USA'">>

WhereLiteral == <<" ", "WHERE", " ", "country", " ", "=", " ", "'limit'">>

WhereSubquery ==
  <<" ", "WHERE", " ", "country", " ", "IN", " ", "(", "SELECT", " ", "5", " ",
    "LIMIT", " ", "5", ")">>

Limits ==
  {<<>>, <<" ", "LIMIT", " ", "5">>, <<" ", "LIMIT", " ", "5000">>,
   <<" ", "limit", " ", "5000">>, <<" ", "LIMIT", " ", "0", ",", " ", "5000">>}

Ends ==
  {<<>>, <<";">>, <<";", " ">>,
   <<";", " ", "DROP", " ", "TABLE", " ", "customers", ";">>}

FromDb == <<" ", "FROM", " ", "db", ".", "customers">>

\* a list behind FROM with an item that is no identifier
FromList == <<" ", "FROM", "\"customers\"", ",", " ", "5">>

\* leading keyword and end of text
KindTexts ==
  {l \o <<" ", "customerName">> \o f \o e :
     l \in Leads, f \in {FromDb, <<" ", "FROM", " ", "customers">>, FromList},
     e \in Ends}

\* tables and columns
SchemaTexts ==
  {<<"SELECT", " ">> \o p \o f \o j \o w :
     p \in Projections, f \in Froms, j \in Joins,
     w \in {<<>>, WhereCountry, WhereNosuch}}

\* row limits
LimitTexts ==
  {<<"SELECT", " ">> \o p \o FromDb \o w \o l \o e :
     p \in {<<"customerName">>, <<"creditLimit">>},
     w \in {<<>>, WhereLiteral, WhereSubquery},
     l \in Limits, e \in {<<>>, <<";">>}}

\* join counts
JoinTexts ==
  {l \o <<" ", "*">> \o f \o j \o w \o e :
     l \in {<<"SELECT">>, <<"DELETE">>},
     f \in {FromDb, <<" ", "FROM", "\"nosuch\"">>},
     j \in JoinRuns, w \in {<<>>, WhereSubquery}, e \in {<<>>, <<";", " ">>}}

\* parts of a projection list that hold, or nearly hold, a dangerous pattern
DangerItems ==
  {<<"exec">>, <<"EXECUTE">>, <<"exec_time">>, <<"load_file">>, <<"-- c", "\n", "5">>,
   <<"/* c */", " ", "5">>, <<"INTO", " ", "OUTFILE">>, <<"into", " ", "\n", "outfile">>,
   <<"INTO">>, <<"customerName">>}

\* dangerous patterns, alone and in pairs
DangerTexts ==
  {<<"SELECT", " ">> \o a \o FromDb : a \in DangerItems}
    \cup {<<"SELECT", " ">> \o a \o <<",", " ">> \o b \o FromDb :
            a \in DangerItems, b \in DangerItems}

MaxNesting == 4

RECURSIVE Nested(_)
\* a scalar subquery nested k deep
Nested(k) ==
  IF k = 0 THEN <<"5">> ELSE <<"(", "SELECT", " ">> \o Nested(k - 1) \o <<")">>

WhereList ==
  <<" ", "WHERE", " ", "country", " ", "IN", " ", "(", "5", ",", " ", "(", "SELECT",
    " ", "5", ")", ")">>

WhereSelectLiteral ==
  <<" ", "WHERE", " ", "country", " ", "IN", " ", "(", "'select'", ")">>

\* subquery nesting
DepthTexts ==
  {<<"SELECT", " ">> \o Nested(k) \o FromDb \o w :
     k \in 0..MaxNesting, w \in {<<>>, WhereSubquery, WhereList, WhereSelectLiteral}}

\* a second statement behind the terminator
SecondStatements ==
  {<<>>,
   <<";", " ", "SELECT", " ", "5", " ", "ORDER BY", " ", "5">>,
   <<";", " ", "SELECT", " ", "5", " ", "GROUP BY", " ", "5">>}

\* the parts of the complexity score
CostTexts ==
  {<<"SELECT", " ">> \o d \o <<"country">> \o FromDb \o g \o o \o s :
     d \in {<<>>, <<"DISTINCT", " ">>},
     g \in {<<>>, <<" ", "GROUP BY", " ", "country">>},
     o \in {<<>>, <<" ", "order by", " ", "country">>},
     s \in SecondStatements}
    \cup {<<"SELECT", " ", "a", " ", "FROM", " ", "t">>}

Texts ==
  KindTexts \cup SchemaTexts \cup LimitTexts \cup JoinTexts \cup DangerTexts
    \cup DepthTexts \cup CostTexts
    \cup {<<>>, <<" ">>, <<";">>, <<"SELECT", " ", "5">>}

\* rows that match a statement in the database
MatchingRows == {0, 500, 1000, 2500}

\* measured durations in milliseconds
Durations == {0, 7}

(***************************************************************************)
(* State: one request of /api/execute-sql (src/app.py), which validates    *)
(* the text and, when it is valid, calls QueryExecutor.execute_query.      *)
(* execute_query runs step by step, because the SIGALRM handler installed  *)
(* by timeout() raises TimeoutException between any two of its steps.      *)
(***************************************************************************)
VARIABLES
  pc,            \* position of the request
  sql_query,     \* the SQL text of the request
  schema_info,   \* the schema the validator was built with
  verdict,       \* what validate returned
  main_thread,   \* the request runs in the interpreter's main thread
  limited_query, \* the text sent to the server
  connection,    \* "none", "open", "closed"
  opened,        \* connections opened by this call
  rows,          \* number of rows the cursor fetched
  result,        \* the result dictionary of execute_query
  exc,           \* the exception that is propagating: "none", "timeout", "db", "value"
  alarm,         \* "off" or "armed"
  handler,       \* SIGALRM handler: "original" or "timeout_handler"
  timed_out,     \* the alarm fired during this call
  returned,      \* the value execute_query returned
  cost_estimate, \* what estimate_cost returned: empty, or one dictionary
  calls,         \* the execute_query calls of concurrent requests
  limits,        \* max_joins and max_subquery_depth of the validator
  supplied,      \* the schema descriptor as the caller supplied it
  chart_data,    \* the rows handed to prepare_chart_data
  chart_type,    \* the chart type handed to prepare_chart_data
  chart,         \* what prepare_chart_data returned: empty, or one dictionary
  original_handler, \* timeout(): the handler signal.signal returned at entry
  APP_STATE,     \* connection_params, schema and rag_loaded of src/app.py
  requests       \* the requests to connect, schema/refresh and execute-sql

vars ==
  <<pc, sql_query, schema_info, verdict, main_thread, limited_query, connection,
    opened, rows, result, exc, alarm, handler, timed_out, returned, cost_estimate,
    calls, limits, supplied, chart_data, chart_type, chart, original_handler,
    APP_STATE, requests>>

\* the state of the other entry points
chartVars == <<chart_data, chart_type, chart>>

restVars == <<chartVars, APP_STATE, requests>>

\* the state outside a request of execute_sql
otherVars == <<limits, supplied, restVars>>

sideVars == <<calls, otherVars>>

\* the dictionary built at lines 75-83 and in the two outer handlers; data
\* and columns are held by their lengths
ResultDict(success, error) ==
  [success |-> success, data |-> 0, columns |-> 0, row_count |-> 0,
   execution_time_ms |-> 0, truncated |-> FALSE, error |-> error]

TimeoutMessage ==
  "Query exceeded timeout of " \o ToStr(QUERY_TIMEOUT) \o " seconds"

\* columns of a result row
RowWidth == 2

\* requests whose execute_query calls overlap
Calls == {1, 2}

\* no request to the application is in progress: the position of each, the
\* state a connect request found, whether another request ran during it,
\* the parameters a refresh read, and the schema and the parameters a query
\* validated and executed with
IdleRequests ==
  [connect |-> [pc |-> "idle",
                before |-> [connection_params |-> None, schema |-> None,
                            rag_loaded |-> FALSE],
                interleaved |-> FALSE],
   refresh |-> [pc |-> "idle", connection_params |-> None],
   query |-> [pc |-> "idle", schema |-> None, connection_params |-> None]]

\* connections the server hands out to overlapping calls
MaxConnections == 3

\* a call that has not started: position, thread, connection object, whether
\* the query takes longer than QUERY_TIMEOUT, whether another call was in
\* flight during this one, exception, result and returned dictionary
IdleCall ==
  [pc |-> "idle", main_thread |-> FALSE, connection |-> 0, open |-> FALSE,
   overruns |-> FALSE, overlapped |-> FALSE, exc |-> "none",
   result |-> ResultDict(FALSE, None), returned |-> ResultDict(FALSE, None)]

Init ==
  /\ pc = "idle"
  /\ sql_query = <<>>
  /\ schema_info = Schema1
  /\ verdict = [is_valid |-> FALSE, errors |-> <<>>]
  /\ main_thread = TRUE
  /\ limited_query = <<>>
  /\ connection = "none"
  /\ opened = 0
  /\ rows = 0
  /\ result = ResultDict(FALSE, None)
  /\ exc = "none"
  /\ alarm = "off"
  /\ handler = "original"
  /\ timed_out = FALSE
  /\ returned = ResultDict(FALSE, None)
  /\ cost_estimate = <<>>
  /\ calls = [c \in Calls |-> IdleCall]
  /\ limits = [max_joins |-> MAX_JOINS, max_subquery_depth |-> MAX_SUBQUERY_DEPTH]
  /\ supplied = Schema1
  /\ chart_data = <<>>
  /\ chart_type = "bar"
  /\ chart = <<>>
  /\ original_handler = "original"
  /\ APP_STATE = [connection_params |-> None, schema |-> None, rag_loaded |-> FALSE]
  /\ requests = IdleRequests

callVars ==
  <<limited_query, connection, opened, rows, result, exc, alarm, handler,
    timed_out, returned, original_handler>>

\* SQLValidator(schema).validate(sql) is called, as in execute_sql at lines
\* 295-299; the method takes any text
Validate ==
  /\ pc = "idle"
  /\ \E sql \in Texts, schema \in Schemas :
       /\ sql_query' = sql
       /\ schema_info' = schema
       /\ verdict' = validate(sql, schema)
  /\ pc' = "validated"
  /\ UNCHANGED <<main_thread, callVars, cost_estimate, sideVars>>

\* execute_sql, lines 301-305: an invalid text is answered with its errors
\* and the locals of the request are gone
RejectInvalid ==
  /\ pc = "validated"
  /\ ~verdict.is_valid
  /\ pc' = "idle"
  /\ sql_query' = <<>>
  /\ schema_info' = Schema1
  /\ verdict' = [is_valid |-> FALSE, errors |-> <<>>]
  /\ cost_estimate' = <<>>
  /\ UNCHANGED <<main_thread, callVars, sideVars>>

\* test_query (src/test_nl2sql.py, line 685) and quick_test.py, line 195:
\* validator.estimate_cost(sql) behind validate
EstimateCost ==
  /\ pc = "validated"
  /\ cost_estimate = <<>>
  /\ cost_estimate' = <<estimate_cost(sql_query)>>
  /\ UNCHANGED <<pc, sql_query, schema_info, verdict, main_thread, callVars, sideVars>>

\* execute_query called without the test of is_valid
CallExecute_Unvalidated ==
  /\ pc = "validated"
  /\ \E m \in BOOLEAN : main_thread' = m
  /\ limited_query' = _add_limit_clause(sql_query, MAX_QUERY_ROWS)
  /\ pc' = "connect"
  /\ cost_estimate' = <<>>
  /\ UNCHANGED <<sideVars, original_handler, sql_query, schema_info, verdict, connection, opened, rows,
                 result, exc, alarm, handler, timed_out, returned>>

\* execute_sql, line 309, and execute_query, line 63; process_query (lines
\* 250-265) and test_query (src/test_nl2sql.py, lines 684-705) validate and
\* call in the same way
CallExecute ==
  /\ pc = "validated"
  /\ verdict.is_valid
  /\ \E m \in BOOLEAN : main_thread' = m
  /\ limited_query' = _add_limit_clause(sql_query, MAX_QUERY_ROWS)
  /\ pc' = "connect"
  /\ cost_estimate' = <<>>
  /\ UNCHANGED <<sideVars, original_handler, sql_query, schema_info, verdict, connection, opened, rows,
                 result, exc, alarm, handler, timed_out, returned>>

\* pymysql.connect and the result dictionary, lines 66-83
Connect ==
  /\ pc = "connect"
  /\ connection' = "open"
  /\ opened' = opened + 1
  /\ result' = ResultDict(FALSE, None)
  /\ pc' = "enter_timeout"
  /\ UNCHANGED <<sideVars, original_handler, cost_estimate, sql_query, schema_info, verdict, main_thread, limited_query, rows,
                 exc, alarm, handler, timed_out, returned>>

\* pymysql.connect raises pymysql.Error: the handler at lines 111-121
ConnectFails ==
  /\ pc = "connect"
  /\ \E ms \in Durations :
       returned' = [ResultDict(FALSE, "Database error: connect")
                      EXCEPT !.execution_time_ms = ms]
  /\ pc' = "done"
  /\ UNCHANGED <<sideVars, original_handler, cost_estimate, sql_query, schema_info, verdict, main_thread, limited_query,
                 connection, opened, rows, result, exc, alarm, handler, timed_out>>

\* timeout(), line 25: signal.signal installs the handler; outside the main
\* thread it raises ValueError
InstallHandler ==
  /\ pc = "enter_timeout"
  /\ IF main_thread
     THEN /\ original_handler' = handler
          /\ handler' = "timeout_handler"
          /\ pc' = "arm"
          /\ exc' = exc
     ELSE /\ exc' = "value"
          /\ pc' = "close"
          /\ UNCHANGED <<handler, original_handler>>
  /\ UNCHANGED <<sideVars, cost_estimate, sql_query, schema_info, verdict, main_thread, limited_query,
                 connection, opened, rows, result, alarm, timed_out, returned>>

\* timeout(), line 26: signal.alarm(seconds)
ArmAlarm ==
  /\ pc = "arm"
  /\ alarm' = "armed"
  /\ pc' = "execute"
  /\ UNCHANGED <<sideVars, original_handler, cost_estimate, sql_query, schema_info, verdict, main_thread, limited_query,
                 connection, opened, rows, result, exc, handler, timed_out, returned>>

\* cursor.execute, line 88: the server answers with rows
Execute ==
  /\ pc = "execute"
  /\ ServerAccepts(limited_query)
  /\ \E matching \in MatchingRows : rows' = RowsReturned(limited_query, matching)
  /\ pc' = "fetchall"
  /\ UNCHANGED <<sideVars, original_handler, cost_estimate, sql_query, schema_info, verdict, main_thread, limited_query,
                 connection, opened, result, exc, alarm, handler, timed_out, returned>>

\* cursor.execute, line 88: the server rejects the statement
ExecuteFails ==
  /\ pc = "execute"
  /\ exc' = "db"
  /\ pc' = "alarm_off"
  /\ UNCHANGED <<sideVars, original_handler, cost_estimate, sql_query, schema_info, verdict, main_thread, limited_query,
                 connection, opened, rows, result, alarm, handler, timed_out, returned>>

\* cursor.fetchall and the test of rows, lines 89-91
FetchAll ==
  /\ pc = "fetchall"
  /\ pc' = IF rows > 0 THEN "set_data" ELSE "set_success"
  /\ UNCHANGED <<sideVars, original_handler, cost_estimate, sql_query, schema_info, verdict, main_thread, limited_query,
                 connection, opened, rows, result, exc, alarm, handler, timed_out,
                 returned>>

\* lines 92-95, one assignment each
SetData ==
  /\ pc = "set_data"
  /\ result' = [result EXCEPT !.data = rows]
  /\ pc' = "set_columns"
  /\ UNCHANGED <<sideVars, original_handler, cost_estimate, sql_query, schema_info, verdict, main_thread, limited_query,
                 connection, opened, rows, exc, alarm, handler, timed_out, returned>>

SetColumns ==
  /\ pc = "set_columns"
  /\ result' = [result EXCEPT !.columns = RowWidth]
  /\ pc' = "set_row_count"
  /\ UNCHANGED <<sideVars, original_handler, cost_estimate, sql_query, schema_info, verdict, main_thread, limited_query,
                 connection, opened, rows, exc, alarm, handler, timed_out, returned>>

SetRowCount ==
  /\ pc = "set_row_count"
  /\ result' = [result EXCEPT !.row_count = rows]
  /\ pc' = "set_truncated"
  /\ UNCHANGED <<sideVars, original_handler, cost_estimate, sql_query, schema_info, verdict, main_thread, limited_query,
                 connection, opened, rows, exc, alarm, handler, timed_out, returned>>

SetTruncated ==
  /\ pc = "set_truncated"
  /\ result' = [result EXCEPT !.truncated = (rows >= MAX_QUERY_ROWS)]
  /\ pc' = "set_success"
  /\ UNCHANGED <<sideVars, original_handler, cost_estimate, sql_query, schema_info, verdict, main_thread, limited_query,
                 connection, opened, rows, exc, alarm, handler, timed_out, returned>>

\* line 97
SetSuccess ==
  /\ pc = "set_success"
  /\ result' = [result EXCEPT !.success = TRUE]
  /\ pc' = "exit_cursor"
  /\ UNCHANGED <<sideVars, original_handler, cost_estimate, sql_query, schema_info, verdict, main_thread, limited_query,
                 connection, opened, rows, exc, alarm, handler, timed_out, returned>>

\* the cursor's context manager exits, line 87
ExitCursor ==
  /\ pc = "exit_cursor"
  /\ pc' = "alarm_off"
  /\ UNCHANGED <<sideVars, original_handler, cost_estimate, sql_query, schema_info, verdict, main_thread, limited_query,
                 connection, opened, rows, result, exc, alarm, handler, timed_out,
                 returned>>

GuardedBody ==
  {"execute", "fetchall", "set_data", "set_columns", "set_row_count",
   "set_truncated", "set_success", "exit_cursor"}

\* timeout_handler, lines 21-22: SIGALRM arrives.  Inside the body of the
\* with statement the exception unwinds into the finally of timeout(); when
\* the finally has been entered and signal.alarm(0) has not run, it leaves
\* the finally at once
AlarmFires ==
  /\ alarm = "armed"
  /\ pc \in GuardedBody \cup {"alarm_off"}
  /\ alarm' = "off"
  /\ timed_out' = TRUE
  /\ exc' = "timeout"
  /\ pc' = IF pc \in GuardedBody THEN "alarm_off" ELSE "except_timeout"
  /\ UNCHANGED <<sideVars, original_handler, cost_estimate, sql_query, schema_info, verdict, main_thread, limited_query,
                 connection, opened, rows, result, handler, returned>>

\* timeout(), line 31: signal.alarm(0)
AlarmOff ==
  /\ pc = "alarm_off"
  /\ alarm' = "off"
  /\ pc' = "restore_handler"
  /\ UNCHANGED <<sideVars, original_handler, cost_estimate, sql_query, schema_info, verdict, main_thread, limited_query,
                 connection, opened, rows, result, exc, handler, timed_out, returned>>

\* timeout(), line 32: signal.signal restores the handler
RestoreHandler ==
  /\ pc = "restore_handler"
  /\ handler' = original_handler
  /\ pc' = IF exc = "timeout" THEN "except_timeout" ELSE "close"
  /\ UNCHANGED <<sideVars, original_handler, cost_estimate, sql_query, schema_info, verdict, main_thread, limited_query,
                 connection, opened, rows, result, exc, alarm, timed_out, returned>>

\* except TimeoutException, lines 99-101
ExceptTimeout ==
  /\ pc = "except_timeout"
  /\ result' = [result EXCEPT !.error = TimeoutMessage]
  /\ exc' = "none"
  /\ pc' = "close"
  /\ UNCHANGED <<sideVars, original_handler, cost_estimate, sql_query, schema_info, verdict, main_thread, limited_query,
                 connection, opened, rows, alarm, handler, timed_out, returned>>

\* connection.close() written at the end of the try block instead of in a
\* finally: a propagating exception skips it
CloseConnection_NoFinally ==
  /\ pc = "close"
  /\ IF exc = "none"
     THEN /\ connection' = "closed"
          /\ pc' = "finish"
          /\ UNCHANGED <<returned, exc>>
     ELSE /\ \E ms \in Durations :
               returned' =
                 [ResultDict(FALSE, IF exc = "db" THEN "Database error: query"
                                    ELSE "Execution error: signal only works in main thread")
                    EXCEPT !.execution_time_ms = ms]
          /\ exc' = "none"
          /\ pc' = "done"
          /\ UNCHANGED connection
  /\ UNCHANGED <<sideVars, original_handler, cost_estimate, sql_query, schema_info, verdict, main_thread, limited_query,
                 opened, rows, result, alarm, handler, timed_out>>

\* finally: connection.close(), line 104; a propagating exception then
\* reaches the handlers at lines 111-132, which return a new dictionary
CloseConnection ==
  /\ pc = "close"
  /\ connection' = "closed"
  /\ IF exc = "none"
     THEN /\ pc' = "finish"
          /\ UNCHANGED <<returned, exc>>
     ELSE /\ \E ms \in Durations :
               returned' =
                 [ResultDict(FALSE, IF exc = "db" THEN "Database error: query"
                                    ELSE "Execution error: signal only works in main thread")
                    EXCEPT !.execution_time_ms = ms]
          /\ exc' = "none"
          /\ pc' = "done"
  /\ UNCHANGED <<sideVars, original_handler, cost_estimate, sql_query, schema_info, verdict, main_thread, limited_query,
                 opened, rows, result, alarm, handler, timed_out>>

\* lines 106-109
Finish ==
  /\ pc = "finish"
  /\ \E ms \in Durations :
       /\ result' = [result EXCEPT !.execution_time_ms = ms]
       /\ returned' = [result EXCEPT !.execution_time_ms = ms]
  /\ pc' = "done"
  /\ UNCHANGED <<sideVars, original_handler, cost_estimate, sql_query, schema_info, verdict, main_thread, limited_query,
                 connection, opened, rows, exc, alarm, handler, timed_out>>

\* execute_sql, lines 311-319: the response is sent; the locals of the
\* request are gone, the process-wide signal state stays
Respond ==
  /\ pc = "done"
  /\ pc' = "idle"
  /\ limited_query' = <<>>
  /\ connection' = "none"
  /\ opened' = 0
  /\ rows' = 0
  /\ result' = ResultDict(FALSE, None)
  /\ exc' = "none"
  /\ timed_out' = FALSE
  /\ returned' = ResultDict(FALSE, None)
  /\ sql_query' = <<>>
  /\ schema_info' = Schema1
  /\ verdict' = [is_valid |-> FALSE, errors |-> <<>>]
  /\ main_thread' = TRUE
  /\ original_handler' = "original"
  /\ UNCHANGED <<alarm, handler, cost_estimate, sideVars>>

Next ==
  \/ Validate \/ RejectInvalid \/ EstimateCost \/ CallExecute
  \/ Connect \/ ConnectFails \/ InstallHandler \/ ArmAlarm
  \/ Execute \/ ExecuteFails \/ FetchAll
  \/ SetData \/ SetColumns \/ SetRowCount \/ SetTruncated \/ SetSuccess
  \/ ExitCursor \/ AlarmFires \/ AlarmOff \/ RestoreHandler \/ ExceptTimeout
  \/ CloseConnection \/ Finish \/ Respond

Spec == Init /\ [][Next]_vars

(***************************************************************************)
(* One validator object and a sequence of calls on it: the validator keeps *)
(* the schema descriptor of its caller (the same dictionary, not a copy)   *)
(* and its two limits; each text is validated and estimated twice.         *)
(***************************************************************************)
\* SQLValidator.__init__, src/validator.py lines 13-29
ConstructValidator ==
  /\ pc = "idle"
  /\ \E schema \in Schemas :
       /\ schema_info' = schema
       /\ supplied' = schema
  /\ limits' = [max_joins |-> MAX_JOINS, max_subquery_depth |-> MAX_SUBQUERY_DEPTH]
  /\ pc' = "constructed"
  /\ UNCHANGED <<sql_query, verdict, main_thread, callVars, cost_estimate, calls, restVars>>

\* validate whose schema check registers the tables it has looked up
ValidateCall_RegistersTables ==
  /\ pc = "constructed"
  /\ \E sql \in Texts :
       /\ sql_query' = sql
       /\ verdict' = validate(sql, schema_info)
  /\ schema_info' =
       [t \in DOMAIN schema_info \cup {"nosuch"} |->
          IF t \in DOMAIN schema_info THEN schema_info[t] ELSE {}]
  /\ pc' = "validate_returned"
  /\ UNCHANGED <<limits, supplied, main_thread, callVars, cost_estimate, calls, restVars>>

\* validate, src/validator.py lines 31-69: it reads self.schema_info,
\* self.max_joins and self.max_subquery_depth and assigns none of them
ValidateCall ==
  /\ pc = "constructed"
  /\ \E sql \in Texts :
       /\ sql_query' = sql
       /\ verdict' = validate(sql, schema_info)
  /\ pc' = "validate_returned"
  /\ UNCHANGED <<schema_info, limits, supplied, main_thread, callVars, cost_estimate,
                 calls, restVars>>

\* estimate_cost, src/validator.py lines 279-297
EstimateCostCall ==
  /\ pc = "validate_returned"
  /\ cost_estimate' = <<estimate_cost(sql_query)>>
  /\ pc' = "estimate_returned"
  /\ UNCHANGED <<sql_query, schema_info, verdict, limits, supplied, main_thread,
                 callVars, calls, restVars>>

\* validate called again with the same text
ValidateAgain ==
  /\ pc = "estimate_returned"
  /\ verdict' = validate(sql_query, schema_info)
  /\ pc' = "validated_again"
  /\ UNCHANGED <<sql_query, schema_info, limits, supplied, main_thread, callVars,
                 cost_estimate, calls, restVars>>

\* estimate_cost called again with the same text
EstimateCostAgain ==
  /\ pc = "validated_again"
  /\ cost_estimate' = <<estimate_cost(sql_query)>>
  /\ pc' = "estimated_again"
  /\ UNCHANGED <<sql_query, schema_info, verdict, limits, supplied, main_thread,
                 callVars, calls, restVars>>

\* the validator is dropped
DiscardValidator ==
  /\ pc = "estimated_again"
  /\ pc' = "idle"
  /\ sql_query' = <<>>
  /\ schema_info' = Schema1
  /\ supplied' = Schema1
  /\ verdict' = [is_valid |-> FALSE, errors |-> <<>>]
  /\ cost_estimate' = <<>>
  /\ UNCHANGED <<limits, main_thread, callVars, calls, restVars>>

NextValidator ==
  \/ ConstructValidator \/ ValidateCall \/ EstimateCostCall \/ ValidateAgain
  \/ EstimateCostAgain \/ DiscardValidator

SpecValidator == Init /\ [][NextValidator]_vars

(***************************************************************************)
(* Overlapping calls: the requests of the Flask server (src/app.py, lines  *)
(* 33-34 and 411-415) share one QueryExecutor and one process, and with it *)
(* the SIGALRM handler and the alarm of timeout().  Each call keeps its    *)
(* locals in calls[c]; at most one of the calls in flight runs in the main *)
(* thread of the interpreter.                                              *)
(***************************************************************************)
requestVars ==
  <<pc, sql_query, schema_info, verdict, main_thread, limited_query, connection,
    opened, rows, result, exc, timed_out, returned, cost_estimate, otherVars,
    original_handler>>

InFlight(c) == calls[c].pc \notin {"idle", "done"}

\* execute_query is entered, lines 34-64; the calls in flight now overlap
EnterExecuteQuery ==
  \E c \in Calls : \E m \in BOOLEAN : \E o \in BOOLEAN :
    /\ calls[c].pc = "idle"
    /\ m => \A d \in Calls : InFlight(d) => ~calls[d].main_thread
    /\ calls' =
         [d \in Calls |->
            IF d = c
            THEN [IdleCall EXCEPT !.pc = "connect", !.main_thread = m, !.overruns = o,
                                  !.overlapped = \E e \in Calls \ {c} : InFlight(e)]
            ELSE IF InFlight(d) THEN [calls[d] EXCEPT !.overlapped = TRUE]
            ELSE calls[d]]
    /\ UNCHANGED <<requestVars, alarm, handler>>

\* pymysql.connect, lines 66-83: a new connection object
PymysqlConnect ==
  \E c \in Calls :
    \E id \in 1..MaxConnections \ {calls[d].connection : d \in Calls} :
      /\ calls[c].pc = "connect"
      /\ calls' = [calls EXCEPT ![c].pc = "enter_timeout", ![c].connection = id,
                                ![c].open = TRUE]
      /\ UNCHANGED <<requestVars, alarm, handler>>

\* timeout(), line 25: signal.signal, which raises ValueError in a thread
\* that is not the main thread
SignalSignal ==
  \E c \in Calls :
    /\ calls[c].pc = "enter_timeout"
    /\ IF calls[c].main_thread
       THEN /\ handler' = "timeout_handler"
            /\ calls' = [calls EXCEPT ![c].pc = "arm"]
       ELSE /\ handler' = handler
            /\ calls' = [calls EXCEPT ![c].pc = "close", ![c].exc = "value"]
    /\ UNCHANGED <<requestVars, alarm>>

\* timeout(), line 26: signal.alarm(seconds) sets the alarm of the process
SignalAlarm ==
  \E c \in Calls :
    /\ calls[c].pc = "arm"
    /\ alarm' = "armed"
    /\ calls' = [calls EXCEPT ![c].pc = "query"]
    /\ UNCHANGED <<requestVars, handler>>

\* lines 86-97: a query that ends within QUERY_TIMEOUT
QueryReturns ==
  \E c \in Calls :
    /\ calls[c].pc = "query"
    /\ ~calls[c].overruns
    /\ calls' = [calls EXCEPT ![c].pc = "alarm_off", ![c].result.success = TRUE]
    /\ UNCHANGED <<requestVars, alarm, handler>>

\* timeout_handler, lines 21-22: SIGALRM is delivered to the main thread
\* while its query is still running
TimeoutHandler ==
  \E c \in Calls :
    /\ calls[c].pc = "query"
    /\ calls[c].overruns
    /\ calls[c].main_thread
    /\ alarm = "armed"
    /\ handler = "timeout_handler"
    /\ alarm' = "off"
    /\ calls' = [calls EXCEPT ![c].pc = "alarm_off", ![c].exc = "timeout"]
    /\ UNCHANGED <<requestVars, handler>>

\* timeout(), lines 30-32: signal.alarm(0) and the handler restored
LeaveTimeout ==
  \E c \in Calls :
    /\ calls[c].pc = "alarm_off"
    /\ alarm' = "off"
    /\ handler' = "original"
    /\ calls' = [calls EXCEPT ![c].pc = IF calls[c].exc = "timeout"
                                          THEN "except_timeout" ELSE "close"]
    /\ UNCHANGED requestVars

\* except TimeoutException, lines 99-101
ExceptTimeoutException ==
  \E c \in Calls :
    /\ calls[c].pc = "except_timeout"
    /\ calls' = [calls EXCEPT ![c].pc = "close", ![c].exc = "none",
                              ![c].result.error = TimeoutMessage]
    /\ UNCHANGED <<requestVars, alarm, handler>>

\* finally: connection.close(), line 104, then the return at line 109 or
\* the handler at lines 122-132
ConnectionClose ==
  \E c \in Calls :
    /\ calls[c].pc = "close"
    /\ calls' =
         [calls EXCEPT
            ![c].pc = "done", ![c].open = FALSE, ![c].exc = "none",
            ![c].returned =
              IF calls[c].exc = "value"
              THEN ResultDict(FALSE, "Execution error: signal only works in main thread")
              ELSE calls[c].result]
    /\ UNCHANGED <<requestVars, alarm, handler>>

\* the caller has the result; the locals of the call are gone
CallReturns ==
  \E c \in Calls :
    /\ calls[c].pc = "done"
    /\ calls' = [calls EXCEPT ![c] = IdleCall]
    /\ UNCHANGED <<requestVars, alarm, handler>>

NextConcurrent ==
  \/ EnterExecuteQuery \/ PymysqlConnect \/ SignalSignal \/ SignalAlarm
  \/ QueryReturns \/ TimeoutHandler \/ LeaveTimeout \/ ExceptTimeoutException
  \/ ConnectionClose \/ CallReturns

SpecConcurrent == Init /\ [][NextConcurrent]_vars

(***************************************************************************)
(* QueryExecutor.prepare_chart_data (src/query_executor.py).  A row is the *)
(* sequence of its cells in column order; a cell is its kind (int, float,  *)
(* str, none) and its str() form.  pandas stores a column of numbers, some *)
(* of them possibly None, as float64 with NaN for None, and iterrows hands *)
(* out each row in the one dtype that holds all its columns.               *)
(***************************************************************************)
ChartTypes == {"bar", "line", "area", "pie"}

ColumnNames == <<"country", "orders", "total">>

Cells ==
  {[kind |-> "int", text |-> "103"], [kind |-> "float", text |-> "1.5"],
   [kind |-> "str", text |-> "USA"], [kind |-> "str", text |-> "12"],
   [kind |-> "none", text |-> "None"]}

\* rows of a result handed to prepare_chart_data
MaxChartRows == 2

\* results of one or two columns, and three results of three columns
ChartInputs ==
  UNION {[1..n -> [1..w -> Cells]] : n \in 0..MaxChartRows, w \in 1..2}
    \cup {<<<<[kind |-> "str", text |-> "USA"], [kind |-> "int", text |-> "103"],
              [kind |-> "str", text |-> "12"]>>>>,
          <<<<[kind |-> "int", text |-> "103"], [kind |-> "int", text |-> "103"],
              [kind |-> "float", text |-> "1.5"]>>,
            <<[kind |-> "int", text |-> "103"], [kind |-> "none", text |-> "None"],
              [kind |-> "float", text |-> "1.5"]>>>>,
          <<<<[kind |-> "str", text |-> "USA"], [kind |-> "str", text |-> "USA"],
              [kind |-> "none", text |-> "None"]>>>>}

\* str() of float(v) for the numbers and numeric strings of Cells
FloatText(text) ==
  CASE text = "103" -> "103.0" [] text = "12" -> "12.0" [] OTHER -> text

NaN == [kind |-> "float", text |-> "nan"]

\* pd.DataFrame(data), line 206: the dtype of column j
Dtype(data, j) ==
  LET kinds == {data[i][j].kind : i \in 1..Len(data)}
  IN  IF "str" \in kinds \/ kinds = {"none"} THEN "object"
      ELSE IF kinds = {"int"} THEN "int64" ELSE "float64"

\* df.iterrows(), lines 212 and 225: the cell in row i, column j of the
\* series of the row
RowCell(data, i, j) ==
  LET cell == data[i][j]
      dtypes == {Dtype(data, k) : k \in 1..Len(data[1])}
      AsFloat(c) == IF c.kind = "none" THEN NaN
                    ELSE [kind |-> "float", text |-> FloatText(c.text)]
  IN  IF Dtype(data, j) = "float64" THEN AsFloat(cell)
      ELSE IF Dtype(data, j) = "int64" /\ "object" \notin dtypes /\ "float64" \in dtypes
      THEN AsFloat(cell)
      ELSE cell

\* float(v): empty when it raises ValueError or TypeError
FloatOf(cell) ==
  IF cell.kind = "none" \/ cell.text = "USA" THEN <<>>
  ELSE <<[kind |-> "float", text |-> FloatText(cell.text)]>>

\* lines 205-241: the chart of rows that are not empty
ChartOfRows(data, type) ==
  LET width == Len(data[1])
      names == SubSeq(ColumnNames, 1, width)
  IN  IF type = "pie"
      THEN IF width >= 2
           THEN IF \E i \in 1..Len(data) : FloatOf(RowCell(data, i, 2)) = <<>>
                THEN [data |-> <<>>, type |-> type, error |-> "could not convert"]
                ELSE [data |-> [i \in 1..Len(data) |->
                                  [name |-> [kind |-> "str",
                                             text |-> RowCell(data, i, 1).text],
                                   value |-> FloatOf(RowCell(data, i, 2))[1]]],
                      type |-> "pie"]
           ELSE [data |-> <<>>, type |-> type]
      ELSE [data |-> [i \in 1..Len(data) |->
                        [j \in 1..width |->
                           IF j = 1
                           THEN [kind |-> "str", text |-> RowCell(data, i, 1).text]
                           ELSE IF FloatOf(RowCell(data, i, j)) # <<>>
                           THEN FloatOf(RowCell(data, i, j))[1]
                           ELSE [kind |-> "str", text |-> RowCell(data, i, j).text]]],
            type |-> type,
            x_key |-> names[1],
            y_keys |-> Tail(names)]

\* prepare_chart_data without the test of lines 202-203: df.columns[0] of
\* an empty frame raises, and the handler at lines 243-245 answers
prepare_chart_data_NoEmptyTest(data, type) ==
  IF data = <<>>
  THEN [data |-> <<>>, type |-> type, error |-> "index 0 is out of bounds"]
  ELSE ChartOfRows(data, type)

\* lines 200-245
prepare_chart_data(data, type) ==
  IF data = <<>> THEN [data |-> <<>>, type |-> type] ELSE ChartOfRows(data, type)

\* a caller prepares a chart from rows
PrepareChartData ==
  /\ pc = "idle"
  /\ \E data \in ChartInputs, type \in ChartTypes :
       /\ chart_data' = data
       /\ chart_type' = type
       /\ chart' = <<prepare_chart_data(data, type)>>
  /\ pc' = "charted"
  /\ UNCHANGED <<sql_query, schema_info, verdict, main_thread, callVars, cost_estimate,
                 calls, limits, supplied, APP_STATE, requests>>

\* the caller has the chart
ChartReturns ==
  /\ pc = "charted"
  /\ pc' = "idle"
  /\ chart_data' = <<>>
  /\ chart_type' = "bar"
  /\ chart' = <<>>
  /\ UNCHANGED <<sql_query, schema_info, verdict, main_thread, callVars, cost_estimate,
                 calls, limits, supplied, APP_STATE, requests>>

NextChart == PrepareChartData \/ ChartReturns

SpecChart == Init /\ [][NextChart]_vars

(***************************************************************************)
(* The application state of src/app.py and the requests that read and      *)
(* write it.  Connection parameters are held by the database they name; a  *)
(* schema is held by the parameters it was extracted with.                 *)
(***************************************************************************)
Dbs == {"classicmodels", "sales"}

\* get_connection_params, lines 49-61: the stored parameters, or those of
\* the environment
get_connection_params ==
  IF APP_STATE.connection_params # None THEN APP_STATE.connection_params ELSE "env"

\* a step of another request during a connect request
Mark(r) ==
  IF r.connect.pc # "idle" THEN [r EXCEPT !.connect.interleaved = TRUE] ELSE r

appFrame ==
  <<pc, sql_query, schema_info, verdict, main_thread, callVars, cost_estimate, calls,
    limits, supplied, chartVars>>

\* connect_database, lines 122-132: the parameters of the request are
\* stored, or a field the request lacks raises KeyError before the store
ConnectStoreParams ==
  /\ requests.connect.pc = "idle"
  /\ \/ /\ \E db \in Dbs : APP_STATE' = [APP_STATE EXCEPT !.connection_params = db]
        /\ requests' = [requests EXCEPT !.connect = [pc |-> "test", before |-> APP_STATE,
                                                     interleaved |-> FALSE]]
     \/ /\ requests' = [requests EXCEPT !.connect = [pc |-> "error", before |-> APP_STATE,
                                                     interleaved |-> FALSE]]
        /\ UNCHANGED APP_STATE
  /\ UNCHANGED appFrame

\* lines 135-137: test_connection
ConnectTest ==
  /\ requests.connect.pc = "test"
  /\ \E success \in BOOLEAN :
       requests' = [requests EXCEPT !.connect.pc = IF success THEN "extract" ELSE "error"]
  /\ UNCHANGED <<appFrame, APP_STATE>>

\* line 140: extract_schema, which may raise
ConnectExtract ==
  /\ requests.connect.pc = "extract"
  /\ \/ /\ APP_STATE' = [APP_STATE EXCEPT !.schema = APP_STATE.connection_params]
        /\ requests' = [requests EXCEPT !.connect.pc = "build"]
     \/ /\ requests' = [requests EXCEPT !.connect.pc = "error"]
        /\ UNCHANGED APP_STATE
  /\ UNCHANGED appFrame

\* lines 143-145: build_rag_index_from_schema, which may raise
ConnectBuild ==
  /\ requests.connect.pc = "build"
  /\ \/ /\ APP_STATE' = [APP_STATE EXCEPT !.rag_loaded = TRUE]
        /\ requests' = [requests EXCEPT !.connect.pc = "connected"]
     \/ /\ requests' = [requests EXCEPT !.connect.pc = "error"]
        /\ UNCHANGED APP_STATE
  /\ UNCHANGED appFrame

\* lines 137, 150-153 and 155-157: the response
ConnectReturns ==
  /\ requests.connect.pc \in {"connected", "error"}
  /\ requests' = [requests EXCEPT !.connect = IdleRequests.connect]
  /\ UNCHANGED <<appFrame, APP_STATE>>

\* refresh_schema, line 196
RefreshReadParams ==
  /\ requests.refresh.pc = "idle"
  /\ requests' = [Mark(requests) EXCEPT
                    !.refresh = [pc |-> "extract",
                                 connection_params |-> get_connection_params]]
  /\ UNCHANGED <<appFrame, APP_STATE>>

\* lines 199-200: the schema is extracted again with the parameters read, or
\* an exception ends the request (lines 214-216)
RefreshExtract ==
  /\ requests.refresh.pc = "extract"
  /\ \/ /\ APP_STATE' = [APP_STATE EXCEPT !.schema = requests.refresh.connection_params]
        /\ requests' = [Mark(requests) EXCEPT !.refresh.pc = "build"]
     \/ /\ requests' = [Mark(requests) EXCEPT !.refresh = IdleRequests.refresh]
        /\ UNCHANGED APP_STATE
  /\ UNCHANGED appFrame

\* lines 203-212: the index is rebuilt, or an exception ends the request
RefreshBuild ==
  /\ requests.refresh.pc = "build"
  /\ \/ APP_STATE' = [APP_STATE EXCEPT !.rag_loaded = TRUE]
     \/ UNCHANGED APP_STATE
  /\ requests' = [Mark(requests) EXCEPT !.refresh = IdleRequests.refresh]
  /\ UNCHANGED appFrame

\* execute_sql, lines 295-305: ensure_schema_loaded, lines 64-70, and the
\* validation against its schema; the extraction may raise (lines 321-323)
\* and the validation may fail (lines 301-305)
QueryValidate ==
  /\ requests.query.pc = "idle"
  /\ \/ LET schema == IF APP_STATE.schema = None THEN get_connection_params
                      ELSE APP_STATE.schema
        IN  /\ APP_STATE' = [APP_STATE EXCEPT !.schema = schema]
            /\ \E is_valid \in BOOLEAN :
                 requests' = [Mark(requests) EXCEPT
                                !.query = [pc |-> IF is_valid THEN "validated"
                                                  ELSE "rejected",
                                           schema |-> schema,
                                           connection_params |-> None]]
     \/ /\ APP_STATE.schema = None
        /\ requests' = [Mark(requests) EXCEPT !.query.pc = "rejected"]
        /\ UNCHANGED APP_STATE
  /\ UNCHANGED appFrame

\* execute_sql, lines 308-309 (process_query, lines 263-264)
QueryExecute ==
  /\ requests.query.pc = "validated"
  /\ requests' = [Mark(requests) EXCEPT
                    !.query.pc = "executed",
                    !.query.connection_params = get_connection_params]
  /\ UNCHANGED <<appFrame, APP_STATE>>

\* execute_sql, lines 302-305, 311-319 and 321-323: the response
QueryResponds ==
  /\ requests.query.pc \in {"executed", "rejected"}
  /\ requests' = [Mark(requests) EXCEPT !.query = IdleRequests.query]
  /\ UNCHANGED <<appFrame, APP_STATE>>

NextApp ==
  \/ ConnectStoreParams \/ ConnectTest \/ ConnectExtract \/ ConnectBuild
  \/ ConnectReturns \/ RefreshReadParams \/ RefreshExtract \/ RefreshBuild
  \/ QueryValidate \/ QueryExecute \/ QueryResponds

SpecApp == Init /\ [][NextApp]_vars

(***************************************************************************)
(* Properties of guarded execution.                                        *)
(***************************************************************************)
Range(seq) == {seq[i] : i \in 1..Len(seq)}

InCall == pc \notin {"idle", "validated"}

\* C1 (row cap): for every text that validate accepted, the statement sent
\* to the server carries a row limit of at most MAX_QUERY_ROWS, and every
\* successful result has row_count <= MAX_QUERY_ROWS.
C1_RowCap ==
  /\ InCall => /\ RowLimit(limited_query) # NoLimit
               /\ RowLimit(limited_query) <= MAX_QUERY_ROWS
  /\ pc = "done" /\ returned.success => returned.row_count <= MAX_QUERY_ROWS

\* C2 (timeout outcome): a call whose alarm fired inside the guarded section
\* returns success = false, the timeout message as error, and no rows,
\* whatever the instant at which the alarm fired.
C2_TimeoutOutcome ==
  pc = "done" /\ timed_out =>
    /\ returned.success = FALSE
    /\ returned.error = TimeoutMessage
    /\ returned.data = 0
    /\ returned.row_count = 0

\* C3 (connection release): a call opens at most one connection, and a
\* connection it opened is closed when the call has returned, on every
\* exit path.
C3_ConnectionRelease ==
  /\ opened <= 1
  /\ pc = "done" /\ opened = 1 => connection = "closed"

\* a call that opened a connection, timed out and has returned
C3_Witness ==
  /\ pc = "done"
  /\ opened = 1
  /\ connection = "closed"
  /\ timed_out
  /\ returned.error = TimeoutMessage

(***************************************************************************)
(* Properties of validation.  What a text says (its leading keyword, the   *)
(* tables of its FROM and JOIN clauses, its column references) is read     *)
(* from the lexemes of the text, independently of the validator.           *)
(***************************************************************************)
Validated == pc = "validated" /\ ~ParsesToNothing(sql_query)

\* index of the next lexeme behind i that is not whitespace, 0 if none
NextLex(sql, i) ==
  LET S == {j \in (i + 1)..Len(sql) : ~IsSpace(sql[j])} IN IF S = {} THEN 0 ELSE Min(S)

\* the first lexeme behind whitespace and comments, "" if there is none
LeadingKeyword(sql) ==
  LET S == {i \in 1..Len(sql) : ~IsSpace(sql[i]) /\ TType(sql[i]) # "Comment"}
  IN  IF S = {} THEN "" ELSE Upper(sql[Min(S)])

IsNameLex(l) == TType(l) \in {"Name", "Symbol"}

RECURSIVE ChainEnd(_, _)
\* last name of the dotted name that starts at lexeme s
ChainEnd(sql, s) ==
  IF s + 2 <= Len(sql) /\ sql[s + 1] = "." /\ IsNameLex(sql[s + 2])
  THEN ChainEnd(sql, s + 2) ELSE s

RECURSIVE RefsFrom(_, _)
\* the table references of a comma-separated list that starts at lexeme s:
\* a possibly qualified table name and an optional alias
RefsFrom(sql, s) ==
  IF s = 0 \/ ~IsNameLex(sql[s]) THEN {}
  ELSE LET e == ChainEnd(sql, s)
           a == NextLex(sql, e)
           hasAlias == a # 0 /\ IsNameLex(sql[a])
           c == NextLex(sql, IF hasAlias THEN a ELSE e)
       IN  {[table |-> StripQuotes(sql[e]),
             alias |-> IF hasAlias THEN StripQuotes(sql[a]) ELSE ""]}
           \cup (IF c # 0 /\ sql[c] = "," THEN RefsFrom(sql, NextLex(sql, c)) ELSE {})

\* the tables named in the FROM clause and in the JOIN clauses
TableRefs(sql) ==
  UNION {RefsFrom(sql, NextLex(sql, i)) :
           i \in {k \in 1..Len(sql) :
                    Upper(sql[k]) = "FROM" \/ Contains("JOIN", Upper(sql[k]))}}

\* lexemes of the projection list: behind the leading SELECT, in front of
\* the first FROM, WHERE, LIMIT or terminator
ProjectionLexemes(sql) ==
  LET sel == {i \in 1..Len(sql) : Upper(sql[i]) = "SELECT"}
      stop == {i \in 1..Len(sql) : Upper(sql[i]) \in {"FROM", "WHERE", "LIMIT", ";"}}
  IN  IF sel = {} \/ LeadingKeyword(sql) # "SELECT" THEN {}
      ELSE {i \in (Min(sel) + 1)..Len(sql) : \A k \in stop : k < Min(sel) \/ i < k}

\* lexemes of the WHERE predicate, outside of parentheses
WhereLexemes(sql) ==
  LET wh == {i \in 1..Len(sql) : Upper(sql[i]) = "WHERE" /\ ParenDepth(sql, i) = 0}
      stop == {i \in 1..Len(sql) :
                 Upper(sql[i]) \in {"LIMIT", ";"} /\ ParenDepth(sql, i) = 0}
  IN  IF wh = {} THEN {}
      ELSE {i \in (Min(wh) + 1)..Len(sql) :
              ParenDepth(sql, i) = 0 /\ \A k \in stop : k < Min(wh) \/ i < k}

Dotted(sql, i) ==
  \/ i > 1 /\ sql[i - 1] = "."
  \/ i < Len(sql) /\ sql[i + 1] = "."

\* the unqualified column references of the projection and of the predicate
UnqualifiedRefs(sql) ==
  {StripQuotes(sql[i]) :
     i \in {k \in ProjectionLexemes(sql) \cup WhereLexemes(sql) :
              IsNameLex(sql[k]) /\ ~Dotted(sql, k)}}

\* the qualified references q.c of the projection, as pairs <<q, c>>
QualifiedRefs(sql) ==
  {<<StripQuotes(sql[i]), StripQuotes(sql[i + 2])>> :
     i \in {k \in ProjectionLexemes(sql) :
              /\ IsNameLex(sql[k])
              /\ ~(k > 1 /\ sql[k - 1] = ".")
              /\ k + 2 <= Len(sql) /\ sql[k + 1] = "." /\ IsNameLex(sql[k + 2])}}

\* the schema tables a qualifier stands for: the table of that name, or the
\* tables the qualifier is bound to as an alias
Resolve(q, sql, schema) ==
  IF q \in DOMAIN schema THEN {q}
  ELSE {r.table : r \in {x \in TableRefs(sql) : x.alias = q /\ x.table \in DOMAIN schema}}

\* C4 (statement-kind rule): the list of a text that parses contains Only
\* SELECT queries are allowed if and only if the leading keyword of the
\* text, behind whitespace and comments and compared without case, is not
\* SELECT.
C4_StatementKindRule ==
  Validated =>
    (("Only SELECT queries are allowed" \in Range(verdict.errors))
       <=> LeadingKeyword(sql_query) # "SELECT")

\* a lower-case select behind a comment and a line break passes the rule
C4_Witness ==
  /\ Validated
  /\ sql_query[1] = "-- c"
  /\ LeadingKeyword(sql_query) = "SELECT"
  /\ "Only SELECT queries are allowed" \notin Range(verdict.errors)

\* a terminator in front of the last character of the trimmed text
SemicolonInsideTrimmed(sql) ==
  \E i \in 1..(Len(Strip(sql)) - 1) : Strip(sql)[i] = ";"

\* C5 (multiple-statement rule): validate answers invalid with Multiple SQL
\* statements not allowed if and only if a terminator stands in front of the
\* last character of the trimmed text; a single trailing terminator, with
\* or without whitespace behind it, gets no such violation.
C5_MultipleStatementRule ==
  pc = "validated" =>
    (("Multiple SQL statements not allowed" \in Range(verdict.errors))
       <=> SemicolonInsideTrimmed(sql_query))

\* the names that occur in the texts
Names == {"customers", "Customers", "nosuch", "country", "orders", "c", "db",
          "customerName", "customerNumber", "creditLimit", "customers c"}

JoinCounts == 0..8

\* place of a violation in the order of rule evaluation: statement kind,
\* joins, subquery depth, tables, columns, then the dangerous patterns
Rank(m) ==
  CASE m = "Only SELECT queries are allowed" -> 1
    [] m \in {JoinMessage(n) : n \in JoinCounts} -> 2
    [] m \in {DepthMessage(n) : n \in JoinCounts} -> 3
    [] m \in {TableMessage(t) : t \in Names} -> 4
    [] m = "Multiple SQL statements not allowed" -> 6
    [] m \in {dangerous_patterns[i][2] : i \in 1..Len(dangerous_patterns)} -> 7
    [] OTHER -> 5

IsKind(m) == Rank(m) = 1

IsComplexity(m) == Rank(m) \in {2, 3}

IsSchema(m) == Rank(m) \in {4, 5}

IsDangerous(m) == Rank(m) \in {6, 7}

\* C6 (aggregation without short-circuit): for a text that parses, the list
\* is ordered statement kind, complexity (joins, then depth), schema
\* (tables, then columns), dangerous patterns, and the violations of each
\* family in the list are those the family reports by itself, whatever the
\* other families report.
C6_Aggregation ==
  Validated =>
    LET errors == verdict.errors
        statement == ParseFirst(sql_query)
    IN  /\ \A i, j \in 1..Len(errors) : i < j => Rank(errors[i]) <= Rank(errors[j])
        /\ SelectSeq(errors, IsKind) =
             (IF LeadingKeyword(sql_query) # "SELECT"
              THEN <<"Only SELECT queries are allowed">> ELSE <<>>)
        /\ SelectSeq(errors, IsComplexity) = _check_complexity(statement)
        /\ SelectSeq(errors, IsSchema) = _validate_schema(statement, schema_info)
        /\ SelectSeq(errors, IsDangerous) = _check_dangerous_patterns(sql_query)
        /\ verdict.is_valid = (errors = <<>>)

\* one text with a violation of every family: kind, joins, table, column
\* and multiple statements
C6_Witness ==
  /\ Validated
  /\ {Rank(m) : m \in Range(verdict.errors)} = {1, 2, 4, 5, 6}

\* a violation that names the table
NamesTable(m, t) == m \in {TableMessage(t), ColumnMessage(t)}

\* C7 (table conformance): for every table named in the FROM clause or in
\* a JOIN clause, with or without alias, a name that is no key of the schema
\* has a violation naming it, and a name that is a key has no table
\* violation.
C7_TableConformance ==
  Validated =>
    \A r \in TableRefs(sql_query) :
      /\ r.table \notin DOMAIN schema_info =>
           \E m \in Range(verdict.errors) : NamesTable(m, r.table)
      /\ r.table \in DOMAIN schema_info =>
           TableMessage(r.table) \notin Range(verdict.errors)

InSomeTable(c, schema) == \E t \in DOMAIN schema : c \in schema[t]

\* C8 (unqualified columns): for every unqualified column reference of the
\* projection list or of the WHERE predicate, the list has a violation
\* naming the column if and only if the column is in no table of the schema.
C8_UnqualifiedColumns ==
  Validated =>
    \A c \in UnqualifiedRefs(sql_query) :
      (ColumnMessage(c) \in Range(verdict.errors)) <=> ~InSomeTable(c, schema_info)

\* C9 (qualified columns): for every reference q.c whose qualifier is a
\* table of the schema or an alias bound to one, the list has a violation
\* naming c and the table if and only if c is no column of that table.
C9_QualifiedColumns ==
  Validated =>
    \A qc \in QualifiedRefs(sql_query) :
      \A t \in Resolve(qc[1], sql_query, schema_info) :
        (ColumnInTableMessage(qc[2], t) \in Range(verdict.errors))
          <=> qc[2] \notin schema_info[t]

\* a single SELECT statement whose tables are keys of the schema, whose
\* columns exist in those tables, within the limits and free of dangerous
\* patterns
Conforming(sql, schema) ==
  /\ ~ParsesToNothing(sql)
  /\ LeadingKeyword(sql) = "SELECT"
  /\ ~SemicolonInsideTrimmed(sql)
  /\ \A r \in TableRefs(sql) : r.table \in DOMAIN schema
  /\ \A c \in UnqualifiedRefs(sql) :
       \E r \in TableRefs(sql) : r.table \in DOMAIN schema /\ c \in schema[r.table]
  /\ \A qc \in QualifiedRefs(sql) :
       /\ Resolve(qc[1], sql, schema) # {}
       /\ \A t \in Resolve(qc[1], sql, schema) : qc[2] \in schema[t]
  /\ _count_joins(ParseFirst(sql)) <= MAX_JOINS
  /\ _count_subquery_depth(ParseFirst(sql), 0) <= MAX_SUBQUERY_DEPTH
  /\ PatternErrors(dangerous_patterns, UpperText(sql)) = <<>>

\* C10 (acceptance of a conforming query): validate answers (true, []) for
\* every conforming query, among them SELECT customerName FROM customers
\* WHERE country = the literal USA against the customers schema.
C10_ConformingAccepted ==
  pc = "validated" /\ Conforming(sql_query, schema_info) =>
    verdict = [is_valid |-> TRUE, errors |-> <<>>]

(***************************************************************************)
(* Properties of the limit rewrite and of the result of a call.            *)
(***************************************************************************)
\* the LIMIT clauses of a text: a LIMIT keyword with a number behind it
LimitClauses(sql) ==
  {i \in 1..Len(sql) :
     /\ Upper(sql[i]) = "LIMIT"
     /\ NextLex(sql, i) > i + 1
     /\ IsDigits(sql[NextLex(sql, i)])}

NoLimitClause(sql) == \A i \in 1..Len(sql) : Upper(sql[i]) # "LIMIT"

\* the text without its single trailing terminator
WithoutTerminator(sql) ==
  LET t == Strip(sql)
  IN  IF t # <<>> /\ t[Len(t)] = ";" THEN Strip(SubSeq(t, 1, Len(t) - 1)) ELSE t

LimitSuffix == <<" ", "LIMIT", " ", ToStr(MAX_QUERY_ROWS)>>

\* C11 (limit append): for a text without LIMIT clause, whatever its
\* identifiers and literals, the rewrite is the text without its trailing
\* terminator followed by LIMIT MAX_QUERY_ROWS.
C11_LimitAppend ==
  InCall /\ NoLimitClause(sql_query) =>
    Strip(limited_query) = WithoutTerminator(sql_query) \o LimitSuffix

\* the text with the number of every LIMIT clause above max_rows replaced by
\* max_rows and nothing else changed
Clamped(sql, max_rows) ==
  [i \in 1..Len(sql) |->
     IF /\ IsDigits(sql[i])
        /\ \E k \in LimitClauses(sql) : NextLex(sql, k) = i
        /\ NumVal[sql[i]] > max_rows
     THEN ToStr(max_rows) ELSE sql[i]]

\* C12 (limit clamp): for a text with LIMIT clauses, the rewrite replaces
\* each number above MAX_QUERY_ROWS by MAX_QUERY_ROWS and leaves the rest of
\* the text, a LIMIT at or below MAX_QUERY_ROWS included, as it is apart
\* from the trailing terminator (the letter case of the LIMIT keyword is
\* not compared).
C12_LimitClamp ==
  InCall /\ LimitClauses(sql_query) # {} =>
    UpperText(Strip(limited_query))
      = UpperText(Clamped(WithoutTerminator(sql_query), MAX_QUERY_ROWS))

ResultKeys ==
  {"success", "data", "columns", "row_count", "truncated", "error",
   "execution_time_ms"}

\* C13 (result envelope): every returned value has the seven keys and a
\* non-negative execution time; success = false comes with an error text,
\* no data and row_count 0; success = true comes without error.
C13_ResultEnvelope ==
  pc = "done" =>
    /\ DOMAIN returned = ResultKeys
    /\ returned.execution_time_ms >= 0
    /\ returned.success = FALSE =>
         /\ returned.error \notin {None, ""}
         /\ returned.data = 0
         /\ returned.row_count = 0
    /\ returned.success = TRUE => returned.error = None

Occurs(k, sql) ==
  CASE k = 1 -> \E i \in 1..Len(sql) : TType(sql[i]) = "Comment" /\ Contains("--", Upper(sql[i]))
    [] k = 2 -> \E i \in 1..Len(sql) : TType(sql[i]) = "Comment" /\ Contains("/*", Upper(sql[i]))
    [] k = 3 -> \E i \in 1..Len(sql) : Upper(sql[i]) = "EXEC"
    [] k = 4 -> \E i \in 1..Len(sql) : Upper(sql[i]) = "EXECUTE"
    [] k = 5 -> \E i \in 1..Len(sql) :
                  /\ Upper(sql[i]) = "INTO"
                  /\ NextLex(sql, i) > i + 1
                  /\ Upper(sql[NextLex(sql, i)]) = "OUTFILE"
    [] k = 6 -> \E i \in 1..Len(sql) : Upper(sql[i]) = "LOAD_FILE"

PatternMessage(k) ==
  CASE k = 1 -> "SQL comments not allowed"
    [] k = 2 -> "Multi-line comments not allowed"
    [] k = 3 -> "EXEC command not allowed"
    [] k = 4 -> "EXECUTE command not allowed"
    [] k = 5 -> "INTO OUTFILE not allowed"
    [] k = 6 -> "LOAD_FILE not allowed"

IsPatternMessage(m) == \E k \in 1..6 : m = PatternMessage(k)

\* C16 (dangerous-pattern rule): for a text that parses, the list holds the
\* message of each of the six patterns once when the pattern occurs in the
\* text in any letter case and not at all otherwise, the six messages are
\* pairwise distinct, and they stand in the fixed order of the patterns
\* however often and wherever a pattern occurs.
C16_DangerousPatternRule ==
  Validated =>
    LET found == SelectSeq(verdict.errors, IsPatternMessage)
    IN  /\ \A k \in 1..6 :
             Cardinality({i \in 1..Len(found) : found[i] = PatternMessage(k)})
               = IF Occurs(k, sql_query) THEN 1 ELSE 0
        /\ \A k, l \in 1..6 : k # l => PatternMessage(k) # PatternMessage(l)
        /\ \A i, j \in 1..Len(found) : \A k, l \in 1..6 :
             i < j /\ found[i] = PatternMessage(k) /\ found[j] = PatternMessage(l) => k < l

\* EXECUTE written before a lower-case exec: the messages come in the order
\* of the patterns, not of the text
C16_Witness ==
  /\ Validated
  /\ \E i, j \in 1..Len(sql_query) :
       i < j /\ sql_query[i] = "EXECUTE" /\ sql_query[j] = "exec"
  /\ SelectSeq(verdict.errors, IsPatternMessage) =
       <<"EXEC command not allowed", "EXECUTE command not allowed">>

\* the complexity violations in a list
JoinViolations(errors) == SelectSeq(errors, LAMBDA m : Rank(m) = 2)

DepthViolations(errors) == SelectSeq(errors, LAMBDA m : Rank(m) = 3)

\* C17 (complexity limits): with join_count and subquery_depth the values
\* estimate_cost reports for the text, the list holds a join violation
\* exactly when join_count > MAX_JOINS and a depth violation exactly when
\* subquery_depth > MAX_SUBQUERY_DEPTH, a value at its limit gets none, and
\* the text of the violation holds the actual value and the limit.
C17_ComplexityLimits ==
  Validated /\ cost_estimate # <<>> =>
    LET join_count == cost_estimate[1].join_count
        subquery_depth == cost_estimate[1].subquery_depth
    IN  /\ JoinViolations(verdict.errors) =
             IF join_count > MAX_JOINS
             THEN <<"Too many JOINs: " \o ToStr(join_count) \o " (max allowed: "
                      \o ToStr(MAX_JOINS) \o ")">>
             ELSE <<>>
        /\ DepthViolations(verdict.errors) =
             IF subquery_depth > MAX_SUBQUERY_DEPTH
             THEN <<"Subquery nesting too deep: " \o ToStr(subquery_depth)
                      \o " (max allowed: " \o ToStr(MAX_SUBQUERY_DEPTH) \o ")">>
             ELSE <<>>

\* four JOIN occurrences against a limit of three
C17_Witness ==
  /\ Validated
  /\ cost_estimate # <<>>
  /\ Cardinality({i \in 1..Len(sql_query) : Upper(sql_query[i]) = "JOIN"}) = 4
  /\ cost_estimate[1].join_count = 4
  /\ MAX_JOINS = 3
  /\ "Too many JOINs: 4 (max allowed: 3)" \in Range(verdict.errors)

QualifiedJoins == {"INNER JOIN", "LEFT JOIN", "RIGHT JOIN", "FULL JOIN", "CROSS JOIN"}

\* occurrences of the word JOIN by itself and of the qualified forms, in
\* any letter case
PlainJoinCount(sql) == Cardinality({i \in 1..Len(sql) : Upper(sql[i]) = "JOIN"})

QualifiedJoinCount(sql) ==
  Cardinality({i \in 1..Len(sql) : Upper(sql[i]) \in QualifiedJoins})

\* C18 (join counting): the join_count estimate_cost reports is the number
\* of occurrences of the word JOIN plus the number of occurrences of the
\* qualified forms, so that a plain JOIN adds 1 and a qualified join adds 2;
\* the text in upper case has the same count; and it is the count whose
\* violation validate reports.
C18_JoinCounting ==
  Validated /\ cost_estimate # <<>> =>
    LET join_count == cost_estimate[1].join_count
    IN  /\ join_count = PlainJoinCount(sql_query) + 2 * QualifiedJoinCount(sql_query)
        /\ join_count = _count_joins(ParseFirst(UpperText(sql_query)))
        /\ \A i \in 1..Len(verdict.errors) :
             Rank(verdict.errors[i]) = 2 => verdict.errors[i] = JoinMessage(join_count)

\* LEFT JOIN and Left Join in one text: four
C18_Witness ==
  /\ Validated
  /\ cost_estimate # <<>>
  /\ \E i, j \in 1..Len(sql_query) : sql_query[i] = "LEFT JOIN" /\ sql_query[j] = "Left Join"
  /\ cost_estimate[1].join_count = 4
  /\ JoinMessage(4) \in Range(verdict.errors)

\* the closing parenthesis of the group opened at lexeme i
ClosingOf(sql, i) ==
  Min({j \in (i + 1)..Len(sql) :
         sql[j] = ")" /\ ParenDepth(sql, j) = ParenDepth(sql, i) + 1})

\* parenthesized groups whose first token behind whitespace is SELECT
SelectGroups(sql) ==
  {i \in 1..Len(sql) :
     /\ sql[i] = "("
     /\ NextLex(sql, i) # 0
     /\ Upper(sql[NextLex(sql, i)]) = "SELECT"}

\* the maximum nesting of such groups
SelectDepth(sql) ==
  Max({0} \cup
      {Cardinality({k \in SelectGroups(sql) :
                      k <= i /\ ClosingOf(sql, k) >= ClosingOf(sql, i)}) :
         i \in SelectGroups(sql)})

\* C19 (subquery depth): the subquery_depth estimate_cost reports for a text
\* is the maximum nesting of the parenthesized groups of its statement that
\* start with SELECT; a group that starts with something else adds nothing.
C19_SubqueryDepth ==
  Validated /\ cost_estimate # <<>> =>
    cost_estimate[1].subquery_depth =
      SelectDepth(SubSeq(sql_query, 1, FirstStatementEnd(sql_query)))

(***************************************************************************)
(* Properties of the value validate returns.                               *)
(***************************************************************************)
\* C20 (validation outcome as data): for every text, validate returns a pair
\* of a flag and a list in which the flag is true exactly when the list is
\* empty, and a text that parses to no statement gets the flag false and
\* the single violation Invalid SQL syntax, none of a rule family.
C20_OutcomeAsData ==
  pc = "validated" =>
    /\ DOMAIN verdict = {"is_valid", "errors"}
    /\ verdict.is_valid \in BOOLEAN
    /\ verdict.is_valid <=> Len(verdict.errors) = 0
    /\ ParsesToNothing(sql_query) =>
         /\ ~verdict.is_valid
         /\ verdict.errors = <<"Invalid SQL syntax">>

\* the empty text has been validated
C20_Witness ==
  /\ pc = "validated"
  /\ sql_query = <<>>
  /\ verdict = [is_valid |-> FALSE, errors |-> <<"Invalid SQL syntax">>]

(***************************************************************************)
(* Properties of overlapping calls.                                        *)
(***************************************************************************)
\* C14 (independent concurrent executions): two calls in flight at the same
\* time hold different connections, and a call that overlapped another one
\* returns the timeout result when its query overruns QUERY_TIMEOUT and its
\* own successful result when its query ends within QUERY_TIMEOUT.
C14_IndependentExecutions ==
  /\ \A c, d \in Calls :
       c # d /\ calls[c].open /\ calls[d].open => calls[c].connection # calls[d].connection
  /\ \A c \in Calls :
       calls[c].pc = "done" /\ calls[c].overlapped =>
         IF calls[c].overruns
         THEN ~calls[c].returned.success /\ calls[c].returned.error = TimeoutMessage
         ELSE calls[c].returned.success /\ calls[c].returned.error = None

(***************************************************************************)
(* Properties of the fields of the result.                                 *)
(***************************************************************************)
\* C21 (truncation flag): a successful result has truncated true exactly
\* when row_count >= MAX_QUERY_ROWS, and a failed result has truncated
\* false.
C21_TruncationFlag ==
  pc = "done" =>
    /\ returned.success => (returned.truncated <=> returned.row_count >= MAX_QUERY_ROWS)
    /\ ~returned.success => ~returned.truncated

(***************************************************************************)
(* Properties of estimate_cost.                                            *)
(***************************************************************************)
\* the word occurs in the text, in any letter case
HasWord(sql, word) == \E i \in 1..Len(sql) : Upper(sql[i]) = word

Bit(b) == IF b THEN 1 ELSE 0

\* C22 (complexity score): in a record of estimate_cost that carries the
\* metrics, estimated_complexity is 1 + 2 * join_count + 3 * subquery_depth
\* + 2 for has_aggregation + 1 for has_order + 1 for DISTINCT in the text,
\* with the values of the same record, also for a text that holds more than
\* one statement; SELECT a FROM t scores 1.
C22_ComplexityScore ==
  cost_estimate # <<>> /\ "join_count" \in DOMAIN cost_estimate[1] =>
    LET m == cost_estimate[1]
    IN  /\ m.estimated_complexity =
             1 + 2 * m.join_count + 3 * m.subquery_depth
               + 2 * Bit(m.has_aggregation) + Bit(m.has_order)
               + Bit(HasWord(sql_query, "DISTINCT"))
        /\ sql_query = <<"SELECT", " ", "a", " ", "FROM", " ", "t">> =>
             m.estimated_complexity = 1

MetricFields ==
  {"join_count", "subquery_depth", "has_aggregation", "has_order", "estimated_complexity"}

\* C23 (totality of estimate_cost): for every text, the empty one and one
\* that is no SELECT included, estimate_cost returns a record with the five
\* fields join_count, subquery_depth, has_aggregation, has_order and
\* estimated_complexity, the integers not negative and estimated_complexity
\* at least 1.
C23_EstimateCostTotal ==
  cost_estimate # <<>> =>
    LET m == cost_estimate[1]
    IN  /\ DOMAIN m = MetricFields
        /\ m.join_count >= 0
        /\ m.subquery_depth >= 0
        /\ m.has_aggregation \in BOOLEAN
        /\ m.has_order \in BOOLEAN
        /\ m.estimated_complexity >= 1

(***************************************************************************)
(* Properties of the validator object.                                     *)
(***************************************************************************)
ValidatorInUse ==
  {"constructed", "validate_returned", "estimate_returned", "validated_again",
   "estimated_again"}

\* a step inside the life of a validator leaves descriptor and limits alone
\* and repeats the earlier answers
PureStep ==
  pc \in ValidatorInUse /\ pc' \in ValidatorInUse =>
    /\ schema_info' = schema_info
    /\ schema_info' = supplied
    /\ limits' = limits
    /\ limits' = [max_joins |-> MAX_JOINS, max_subquery_depth |-> MAX_SUBQUERY_DEPTH]
    /\ pc' = "validated_again" => verdict' = verdict
    /\ pc' = "estimated_again" => cost_estimate' = cost_estimate

C25_EmptyChartInput ==
  pc = "charted" /\ chart_data = <<>> =>
    /\ chart_type \in ChartTypes
    /\ DOMAIN chart[1] = {"data", "type"}
    /\ chart[1].data = <<>>
    /\ chart[1].type = chart_type

\* a pie chart of no rows
C25_Witness ==
  /\ pc = "charted"
  /\ chart_data = <<>>
  /\ chart_type = "pie"
  /\ chart = <<[data |-> <<>>, type |-> "pie"]>>

\* the cell as the claim coerces it: a float when float() accepts the cell
\* itself, its str() form otherwise
Coerced(cell) ==
  IF FloatOf(cell) # <<>> THEN FloatOf(cell)[1] ELSE [kind |-> "str", text |-> cell.text]

\* C26 (bar, line and area chart shape): for rows that are not empty, x_key
\* is column 0, y_keys are the other columns in order, data holds one
\* mapping per row in the order of the rows, with the str() form of the
\* category under x_key and under each other column the cell as a float
\* when it can be coerced and its str() form otherwise.
C26_ChartShape ==
  pc = "charted" /\ chart_data # <<>> /\ chart_type # "pie" =>
    LET width == Len(chart_data[1])
        c == chart[1]
    IN  /\ DOMAIN c = {"data", "type", "x_key", "y_keys"}
        /\ c.type = chart_type
        /\ c.x_key = ColumnNames[1]
        /\ c.y_keys = SubSeq(ColumnNames, 2, width)
        /\ Len(c.data) = Len(chart_data)
        /\ \A i \in 1..Len(chart_data) :
             /\ DOMAIN c.data[i] = 1..width
             /\ c.data[i][1] = [kind |-> "str", text |-> chart_data[i][1].text]
             /\ \A j \in 2..width : c.data[i][j] = Coerced(chart_data[i][j])

(***************************************************************************)
(* Properties of the timeout guard.                                        *)
(***************************************************************************)
\* C27 (row-count consistency): in every returned result, whatever the
\* outcome and the instant at which the alarm fired, row_count is the
\* number of rows in data, and columns is not empty only when data is not
\* empty.
C27_RowCountConsistency ==
  pc = "done" =>
    /\ returned.row_count = returned.data
    /\ returned.columns > 0 => returned.data > 0

\* positions of execute_query behind the with statement of timeout()
LeftTimeout == {"except_timeout", "close", "finish", "done"}

\* C28 (alarm cleanup): when a call has left timeout(), by the end of the
\* body, by an exception of the body or by the alarm at any instant, no
\* alarm is pending and the handler that was installed before the entry is
\* installed again.
C28_AlarmCleanup ==
  pc \in LeftTimeout /\ main_thread =>
    /\ alarm = "off"
    /\ handler = original_handler

(***************************************************************************)
(* Properties of the application state.                                    *)
(***************************************************************************)
\* C29 (failed connect leaves state unchanged): when a connect request ends
\* in an error and no other request ran during it, connection_params,
\* schema and rag_loaded are what they were before the request.
C29_FailedConnect ==
  requests.connect.pc = "error" /\ ~requests.connect.interleaved =>
    APP_STATE = requests.connect.before

\* C30 (schema and connection consistency): a query is executed with the
\* connection parameters that the schema it was validated against was
\* extracted with.
C30_SchemaConnectionConsistency ==
  requests.query.pc = "executed" =>
    requests.query.schema = requests.query.connection_params

====
